---- MODULE Spec2Model ----
(***************************************************************************)
(* A model of the FacilityApps bulk job importer (src/app.py):             *)
(*   - the reference index and the resolvers of JobValidator,              *)
(*   - JobValidator.validate_row,                                          *)
(*   - the audit loop, the ready-row selection and the export,             *)
(*   - the import loop with create_job / create_job_with_retry.            *)
(*                                                                         *)
(* Text is modelled as a sequence of one-character strings, so that        *)
(* str.strip(), str.lower(), int() and the date parser are computed and    *)
(* not assumed.  A CSV cell is a text or NAN (pandas' missing value); a    *)
(* column that the file does not have is absent from the row's DOMAIN.     *)
(* A numeric cell is represented by its decimal text: int() and str()      *)
(* give the same results on an integer cell and on its decimal text.       *)
(***************************************************************************)
EXTENDS Integers, Sequences, FiniteSets, TLC

(***************************************************************************)
(* Python values                                                           *)
(***************************************************************************)
\* float('nan'), the value pandas gives an empty cell
NAN == <<"NaN">>
\* None, also the default of dict.get / Series.get
NONE == <<"None">>

EmptyText == <<>>

WhiteSpace == {" "}

UpperChars == <<"A", "B", "C", "D", "E", "F", "G", "H", "I", "J", "K", "L", "M",
                "N", "O", "P", "Q", "R", "S", "T", "U", "V", "W", "X", "Y", "Z">>

LowerChars == <<"a", "b", "c", "d", "e", "f", "g", "h", "i", "j", "k", "l", "m",
                "n", "o", "p", "q", "r", "s", "t", "u", "v", "w", "x", "y", "z">>

DigitChars == <<"0", "1", "2", "3", "4", "5", "6", "7", "8", "9">>

\* str.lower() on one character
LowerChar(c) ==
    IF \E i \in 1..Len(UpperChars) : UpperChars[i] = c
    THEN LowerChars[CHOOSE i \in 1..Len(UpperChars) : UpperChars[i] = c]
    ELSE c

\* str.lower()
Lower(s) == [i \in 1..Len(s) |-> LowerChar(s[i])]

RECURSIVE LStrip(_)
LStrip(s) == IF s # <<>> /\ Head(s) \in WhiteSpace THEN LStrip(Tail(s)) ELSE s

RECURSIVE RStrip(_)
RStrip(s) ==
    IF s # <<>> /\ s[Len(s)] \in WhiteSpace THEN RStrip(SubSeq(s, 1, Len(s) - 1)) ELSE s

\* str.strip()
Strip(s) == RStrip(LStrip(s))

\* str(x) of a cell or of a .get() result
PyStr(x) ==
    IF x = NAN THEN <<"n", "a", "n">>
    ELSE IF x = NONE THEN <<"N", "o", "n", "e">>
    ELSE x

\* pd.isna(x) / pd.notna(x)
IsNa(x) == x = NAN \/ x = NONE
NotNa(x) == ~IsNa(x)

\* bool(x): None and "" are false, NaN and every other text are true
Truthy(x) == x # NONE /\ x # EmptyText

\* a or b or c
Or3(a, b, c) == IF Truthy(a) THEN a ELSE IF Truthy(b) THEN b ELSE c

\* d.get(k) and d.get(k, default) of a dict or a pandas row
Get(d, k) == IF k \in DOMAIN d THEN d[k] ELSE NONE
GetD(d, k, default) == IF k \in DOMAIN d THEN d[k] ELSE default

\* d[k] = v
Put(d, k, v) == [x \in (DOMAIN d) \cup {k} |-> IF x = k THEN v ELSE d[x]]

EmptyDict == [x \in {} |-> NONE]

\* the usual test "pd.notna(x) and str(x).strip() != ''"
Given(x) == NotNa(x) /\ Strip(PyStr(x)) # EmptyText

(***************************************************************************)
(* Reference data, as the API returns it.  An entry of a list is a dict    *)
(* (kind "dict", d its keys and values) or something else (None, a         *)
(* string).  Ids are given by their str().                                 *)
(***************************************************************************)
Dict(d) == [kind |-> "dict", d |-> d]
NotADict == [kind |-> "other", d |-> EmptyDict]

\* isinstance(e, dict) and e.get("id") is not None
HasId(e) == e.kind = "dict" /\ Get(e.d, "id") # NONE

SitesData ==
    << Dict([id |-> <<"1">>, name |-> <<"H", "Q">>]),
       Dict([id |-> <<"2">>, title |-> <<"L", "a", "b">>]),
       NotADict,
       Dict([name |-> <<"N", "o", "I", "d">>]) >>

FloorsData ==
    << Dict([id |-> <<"1", "0">>, name |-> <<"G">>, site_id |-> <<"1">>]),
       Dict([id |-> <<"2", "0">>, name |-> <<"G">>, siteId |-> <<"2">>]),
       Dict([id |-> <<"3", "0">>, name |-> <<"U", "p">>, location_id |-> <<"1">>]),
       NotADict >>

SpacesData ==
    << Dict([id |-> <<"5">>, name |-> <<"R">>, floor_id |-> <<"1", "0">>]),
       Dict([id |-> <<"6">>, name |-> <<"R">>, floorId |-> <<"2", "0">>]),
       Dict([id |-> <<"7">>, name |-> <<"K">>]) >>

UsersData ==
    << Dict([id |-> <<"8">>, user_name |-> <<"b", "o", "b">>, email |-> <<"b", "@", "x">>]),
       Dict([id |-> <<"9">>, email |-> <<"A", "@", "x">>]) >>

(***************************************************************************)
(* JobValidator.__init__: the reference index                              *)
(***************************************************************************)
\* {str(e.get("id")): e for e in entries if isinstance(e, dict) and e.get("id") is not None}
RECURSIVE ById(_, _)
ById(entries, acc) ==
    IF entries = <<>> THEN acc
    ELSE LET e == Head(entries)
         IN  ById(Tail(entries),
                  IF HasId(e) THEN Put(acc, PyStr(Get(e.d, "id")), e.d) ELSE acc)

\* site_name_to_id
RECURSIVE SiteNameToId(_, _)
SiteNameToId(entries, acc) ==
    IF entries = <<>> THEN acc
    ELSE LET e == Head(entries)
             name == Or3(Get(e.d, "name"), Get(e.d, "site_name"), Get(e.d, "title"))
         IN  SiteNameToId(Tail(entries),
                 IF HasId(e) /\ Truthy(name)
                 THEN Put(acc, Lower(Strip(PyStr(name))), PyStr(Get(e.d, "id")))
                 ELSE acc)

\* f"{parent}|{name}"
ContextKey(parent, name) == parent \o <<"|">> \o name

\* floor_name_to_id: the key scoped by str(f.get("site_id", f.get("location_id", "")))
\* and the unscoped key, later entries overwriting earlier ones
RECURSIVE FloorNameToId(_, _)
FloorNameToId(entries, acc) ==
    IF entries = <<>> THEN acc
    ELSE LET e == Head(entries)
             name == Or3(Get(e.d, "name"), Get(e.d, "floor_name"), Get(e.d, "title"))
             site_id == PyStr(GetD(e.d, "site_id", GetD(e.d, "location_id", EmptyText)))
             lname == Lower(Strip(PyStr(name)))
             fid == PyStr(Get(e.d, "id"))
         IN  FloorNameToId(Tail(entries),
                 IF HasId(e) /\ Truthy(name)
                 THEN Put(Put(acc, ContextKey(site_id, lname), fid), lname, fid)
                 ELSE acc)

\* space_name_to_id: the key scoped by str(s.get("floor_id", "")) and the unscoped key
RECURSIVE SpaceNameToId(_, _)
SpaceNameToId(entries, acc) ==
    IF entries = <<>> THEN acc
    ELSE LET e == Head(entries)
             name == Or3(Get(e.d, "name"), Get(e.d, "space_name"), Get(e.d, "title"))
             floor_id == PyStr(GetD(e.d, "floor_id", EmptyText))
             lname == Lower(Strip(PyStr(name)))
             sid == PyStr(Get(e.d, "id"))
         IN  SpaceNameToId(Tail(entries),
                 IF HasId(e) /\ Truthy(name)
                 THEN Put(Put(acc, ContextKey(floor_id, lname), sid), lname, sid)
                 ELSE acc)

\* user_name_to_id: user names and e-mail addresses in one map
RECURSIVE UserNameToId(_, _)
UserNameToId(entries, acc) ==
    IF entries = <<>> THEN acc
    ELSE LET e == Head(entries)
             username == Or3(Get(e.d, "user_name"), Get(e.d, "username"), Get(e.d, "name"))
             email == Get(e.d, "email")
             uid == PyStr(Get(e.d, "id"))
             acc1 == IF HasId(e) /\ Truthy(username)
                     THEN Put(acc, Lower(Strip(PyStr(username))), uid) ELSE acc
             acc2 == IF HasId(e) /\ Truthy(email)
                     THEN Put(acc1, Lower(Strip(PyStr(email))), uid) ELSE acc1
         IN  UserNameToId(Tail(entries), acc2)

\* floor_to_site built from site_id and location_id only
RECURSIVE FloorToSiteIgnoringSiteId(_, _)
FloorToSiteIgnoringSiteId(entries, acc) ==
    IF entries = <<>> THEN acc
    ELSE LET e == Head(entries)
             has == Get(e.d, "site_id") # NONE \/ Get(e.d, "location_id") # NONE
             parent == Or3(Get(e.d, "site_id"), Get(e.d, "location_id"), NONE)
         IN  FloorToSiteIgnoringSiteId(Tail(entries),
                 IF HasId(e) /\ has
                 THEN Put(acc, PyStr(Get(e.d, "id")), PyStr(parent)) ELSE acc)

\* floor_to_site
RECURSIVE FloorToSite(_, _)
FloorToSite(entries, acc) ==
    IF entries = <<>> THEN acc
    ELSE LET e == Head(entries)
             has == Get(e.d, "siteId") # NONE \/ Get(e.d, "site_id") # NONE
                    \/ Get(e.d, "location_id") # NONE
             parent == Or3(Get(e.d, "siteId"), Get(e.d, "site_id"), Get(e.d, "location_id"))
         IN  FloorToSite(Tail(entries),
                 IF HasId(e) /\ has
                 THEN Put(acc, PyStr(Get(e.d, "id")), PyStr(parent)) ELSE acc)

\* space_to_floor
RECURSIVE SpaceToFloor(_, _)
SpaceToFloor(entries, acc) ==
    IF entries = <<>> THEN acc
    ELSE LET e == Head(entries)
             has == Get(e.d, "floorId") # NONE \/ Get(e.d, "floor_id") # NONE
             parent == IF Truthy(Get(e.d, "floorId")) THEN Get(e.d, "floorId")
                       ELSE Get(e.d, "floor_id")
         IN  SpaceToFloor(Tail(entries),
                 IF HasId(e) /\ has
                 THEN Put(acc, PyStr(Get(e.d, "id")), PyStr(parent)) ELSE acc)

JobValidator(sites, floors, spaces, users) ==
    [ sites            |-> ById(sites, EmptyDict),
      floors           |-> ById(floors, EmptyDict),
      spaces           |-> ById(spaces, EmptyDict),
      users            |-> ById(users, EmptyDict),
      site_name_to_id  |-> SiteNameToId(sites, EmptyDict),
      floor_name_to_id |-> FloorNameToId(floors, EmptyDict),
      space_name_to_id |-> SpaceNameToId(spaces, EmptyDict),
      user_name_to_id  |-> UserNameToId(users, EmptyDict),
      floor_to_site    |-> FloorToSite(floors, EmptyDict),
      space_to_floor   |-> SpaceToFloor(spaces, EmptyDict) ]

\* the validator the session builds from the loaded reference data
Validator == JobValidator(SitesData, FloorsData, SpacesData, UsersData)

(***************************************************************************)
(* The resolvers.  A result is [id, error]: id is NONE for None, error is  *)
(* "" for None and the message (without the values it quotes) otherwise.   *)
(***************************************************************************)
Resolved(id) == [id |-> id, error |-> ""]
Failed(msg) == [id |-> NONE, error |-> msg]
NoResult == [id |-> NONE, error |-> ""]

\* resolve_site without the blank test on site_id
resolve_site_no_blank_test(v, row) ==
    LET site_id == Get(row, "site_id")
        site_name == Get(row, "site_name")
        resolved_id == Get(v.site_name_to_id, Lower(Strip(PyStr(site_name))))
    IN  IF NotNa(site_id) THEN Resolved(Strip(PyStr(site_id)))
        ELSE IF Given(site_name)
             THEN IF Truthy(resolved_id) THEN Resolved(resolved_id)
                  ELSE Failed("Site name not found")
        ELSE Failed("Neither site_id nor site_name provided")

resolve_site(v, row) ==
    LET site_id == Get(row, "site_id")
        site_name == Get(row, "site_name")
        name_key == Lower(Strip(PyStr(site_name)))
        resolved_id == Get(v.site_name_to_id, name_key)
    IN  IF Given(site_id) THEN Resolved(Strip(PyStr(site_id)))
        ELSE IF Given(site_name)
             THEN IF Truthy(resolved_id) THEN Resolved(resolved_id)
                  ELSE Failed("Site name not found")
        ELSE Failed("Neither site_id nor site_name provided")

resolve_floor(v, row, site_id) ==
    LET floor_id == Get(row, "floor_id")
        floor_name == Get(row, "floor_name")
        name == Lower(Strip(PyStr(floor_name)))
        scoped == Get(v.floor_name_to_id, ContextKey(PyStr(site_id), name))
        unscoped == Get(v.floor_name_to_id, name)
    IN  IF ~Given(floor_id) /\ ~Given(floor_name) THEN NoResult
        ELSE IF Given(floor_id) THEN Resolved(Strip(PyStr(floor_id)))
        ELSE IF Truthy(scoped) THEN Resolved(scoped)
        ELSE IF Truthy(unscoped) THEN Resolved(unscoped)
        ELSE Failed("Floor name not found in site")

resolve_space(v, row, floor_id) ==
    LET space_id == Get(row, "space_id")
        space_name == Get(row, "space_name")
        name == Lower(Strip(PyStr(space_name)))
        scoped == IF Truthy(floor_id)
                  THEN Get(v.space_name_to_id, ContextKey(PyStr(floor_id), name))
                  ELSE NONE
        unscoped == Get(v.space_name_to_id, name)
    IN  IF ~Given(space_id) /\ ~Given(space_name) THEN NoResult
        ELSE IF Given(space_id) THEN Resolved(Strip(PyStr(space_id)))
        ELSE IF Truthy(scoped) THEN Resolved(scoped)
        ELSE IF Truthy(unscoped) THEN Resolved(unscoped)
        ELSE Failed("Space name not found")

\* resolve_owner with the e-mail address tried before the name
resolve_owner_email_first(v, row) ==
    LET owner_id == Get(row, "owner_employee_id")
        owner_name == Get(row, "owner_name")
        owner_email == Get(row, "owner_email")
        by_name == Get(v.user_name_to_id, Lower(Strip(PyStr(owner_name))))
        by_email == Get(v.user_name_to_id, Lower(Strip(PyStr(owner_email))))
    IN  IF Given(owner_id) THEN Resolved(Strip(PyStr(owner_id)))
        ELSE IF Given(owner_email) /\ Truthy(by_email) THEN Resolved(by_email)
        ELSE IF Given(owner_name) /\ Truthy(by_name) THEN Resolved(by_name)
        ELSE Failed("Owner not found by ID, name, or email")

resolve_owner(v, row) ==
    LET owner_id == Get(row, "owner_employee_id")
        owner_name == Get(row, "owner_name")
        owner_email == Get(row, "owner_email")
        by_name == Get(v.user_name_to_id, Lower(Strip(PyStr(owner_name))))
        by_email == Get(v.user_name_to_id, Lower(Strip(PyStr(owner_email))))
    IN  IF Given(owner_id) THEN Resolved(Strip(PyStr(owner_id)))
        ELSE IF Given(owner_name) /\ Truthy(by_name) THEN Resolved(by_name)
        ELSE IF Given(owner_email) /\ Truthy(by_email) THEN Resolved(by_email)
        ELSE Failed("Owner not found by ID, name, or email")

(***************************************************************************)
(* int() and pd.to_datetime().date()                                       *)
(***************************************************************************)
IsDigit(c) == \E i \in 1..Len(DigitChars) : DigitChars[i] = c
DigitValue(c) == (CHOOSE i \in 1..Len(DigitChars) : DigitChars[i] = c) - 1

AllDigits(s) == s # <<>> /\ \A i \in 1..Len(s) : IsDigit(s[i])

RECURSIVE DigitsValue(_, _)
DigitsValue(s, acc) ==
    IF s = <<>> THEN acc ELSE DigitsValue(Tail(s), 10 * acc + DigitValue(Head(s)))

\* int(text): surrounding white space and one sign are accepted, anything else
\* raises ValueError (ok = FALSE)
ParseInt(x) ==
    LET s == Strip(PyStr(x))
        signed == s # <<>> /\ Head(s) \in {"+", "-"}
        digits == IF signed THEN Tail(s) ELSE s
    IN  IF AllDigits(digits)
        THEN [ok |-> TRUE,
              val |-> IF signed /\ Head(s) = "-" THEN 0 - DigitsValue(digits, 0)
                      ELSE DigitsValue(digits, 0)]
        ELSE [ok |-> FALSE, val |-> 0]

DaysInMonth(y, m) ==
    IF m \in {4, 6, 9, 11} THEN 30
    ELSE IF m = 2 THEN (IF y % 4 = 0 /\ (y % 100 # 0 \/ y % 400 = 0) THEN 29 ELSE 28)
    ELSE 31

\* pd.to_datetime(text).date() for the forms YYYY-MM-DD and YYYY/MM/DD; the
\* date is the number YYYYMMDD, which orders as dates do.  Every other text
\* of the model's rows is a word that no parser takes for a date.
ParseDate(x) ==
    LET s == PyStr(x)
        shaped == /\ Len(s) = 10
                  /\ s[5] \in {"-", "/"} /\ s[8] = s[5]
                  /\ AllDigits(SubSeq(s, 1, 4)) /\ AllDigits(SubSeq(s, 6, 7))
                  /\ AllDigits(SubSeq(s, 9, 10))
        y == DigitsValue(SubSeq(s, 1, 4), 0)
        m == DigitsValue(SubSeq(s, 6, 7), 0)
        d == DigitsValue(SubSeq(s, 9, 10), 0)
    IN  IF shaped /\ y >= 1 /\ m \in 1..12 /\ d >= 1 /\ d <= DaysInMonth(y, m)
        THEN [ok |-> TRUE, val |-> y * 10000 + m * 100 + d]
        ELSE [ok |-> FALSE, val |-> 0]

\* text.split(",")
RECURSIVE Split(_, _)
Split(s, cur) ==
    IF s = <<>> THEN <<cur>>
    ELSE IF Head(s) = "," THEN <<cur>> \o Split(Tail(s), <<>>)
    ELSE Split(Tail(s), Append(cur, Head(s)))

\* text[:3]
First3(s) == SubSeq(s, 1, IF Len(s) < 3 THEN Len(s) ELSE 3)

(***************************************************************************)
(* JobValidator.validate_row                                               *)
(*                                                                         *)
(* An issue is the dict the code appends; issue_detail and suggestion are  *)
(* the code's texts without the values they quote, and args holds the      *)
(* quoted values where a claim speaks of them.                             *)
(***************************************************************************)
Issue(row_num, status, code, detail, args, suggestion) ==
    [ row_number   |-> row_num,
      status       |-> status,
      issue_code   |-> code,
      issue_detail |-> detail,
      args         |-> args,
      suggestion   |-> suggestion ]

Error(row_num, code, detail, suggestion) ==
    Issue(row_num, "ERROR", code, detail, <<>>, suggestion)

\* any(i["issue_code"] in codes for i in issues)
HasCode(issues, codes) == \E i \in 1..Len(issues) : issues[i].issue_code \in codes

\* Resolution of site, owner, floor and space; the resolved ids are stored
\* back in the row (only when the resolution gave one).  Each step takes
\* the issues and the row as the step before left them.
ResolveSiteStep(v, row, row_num) ==
    LET site == resolve_site(v, row)
    IN  [issues |-> IF site.error # ""
                    THEN <<Error(row_num, "MISSING_SITE", site.error,
                                 "Provide site_id or site_name")>>
                    ELSE <<>>,
         row |-> IF site.error # "" THEN row ELSE Put(row, "_resolved_site_id", site.id),
         site_id |-> site.id]

ResolveOwnerStep(v, st, row_num) ==
    LET owner == resolve_owner(v, st.row)
    IN  [issues |-> st.issues \o
                    (IF owner.error # ""
                     THEN <<Error(row_num, "MISSING_OWNER", owner.error,
                                  "Provide owner_employee_id, owner_name, or owner_email")>>
                     ELSE <<>>),
         row |-> IF owner.error # "" THEN st.row
                 ELSE Put(st.row, "_resolved_owner_id", owner.id),
         site_id |-> st.site_id]

ResolveFloorStep(v, st, row_num) ==
    LET floor == IF Truthy(st.site_id) THEN resolve_floor(v, st.row, st.site_id) ELSE NoResult
    IN  [issues |-> st.issues \o
                    (IF floor.error # ""
                     THEN <<Error(row_num, "INVALID_FLOOR", floor.error,
                                  "Check floor_id or floor_name")>>
                     ELSE <<>>),
         row |-> IF floor.error = "" /\ Truthy(floor.id)
                 THEN Put(st.row, "_resolved_floor_id", floor.id) ELSE st.row,
         floor_id |-> floor.id]

ResolveSpaceStep(v, st, row_num) ==
    LET space == IF Truthy(st.floor_id) THEN resolve_space(v, st.row, st.floor_id) ELSE NoResult
    IN  [issues |-> st.issues \o
                    (IF space.error # ""
                     THEN <<Error(row_num, "INVALID_SPACE", space.error,
                                  "Check space_id or space_name")>>
                     ELSE <<>>),
         row |-> IF space.error = "" /\ Truthy(space.id)
                 THEN Put(st.row, "_resolved_space_id", space.id) ELSE st.row]

ResolutionPhase(v, row, row_num) ==
    ResolveSpaceStep(v,
        ResolveFloorStep(v,
            ResolveOwnerStep(v, ResolveSiteStep(v, row, row_num), row_num),
            row_num),
        row_num)

RequiredFields ==
    <<"title_en", "date_start", "date_end", "hour_start", "minute_start", "hour_end",
      "minute_end">>

\* pd.isna(row.get(field)) or str(row.get(field, "")).strip() == ""
MissingField(row, field) ==
    IsNa(Get(row, field)) \/ Strip(PyStr(GetD(row, field, EmptyText))) = EmptyText

RECURSIVE RequiredFieldIssues(_, _, _)
RequiredFieldIssues(row, row_num, fields) ==
    IF fields = <<>> THEN <<>>
    ELSE (IF MissingField(row, Head(fields))
          THEN <<Error(row_num, "MISSING_REQUIRED", "Missing required field: " \o Head(fields),
                       "Provide a value for " \o Head(fields))>>
          ELSE <<>>)
         \o RequiredFieldIssues(row, row_num, Tail(fields))

GateCodes == {"MISSING_SITE", "MISSING_OWNER", "MISSING_REQUIRED"}

\* the gate looking at MISSING_REQUIRED only
GateStopsRequiredOnly(issues) == HasCode(issues, {"MISSING_REQUIRED"})

\* "If missing required fields, skip further validation"
GateStops(issues) == HasCode(issues, GateCodes)

\* date_start <= today
IsPastOrToday(date_start, today) == date_start <= today

\* date_start < today
IsPast(date_start, today) == date_start < today

DateIssues(row, row_num, today) ==
    LET date_start == ParseDate(row["date_start"])
        date_end == ParseDate(row["date_end"])
    IN  IF date_start.ok /\ date_end.ok
        THEN (IF IsPast(date_start.val, today)
              THEN <<Error(row_num, "PAST_DATE", "date_start is in the past", "Use date >= today")>>
              ELSE <<>>)
             \o
             (IF date_end.val < date_start.val
              THEN <<Error(row_num, "INVALID_DATE_RANGE", "date_end before date_start",
                           "Set date_end >= date_start")>>
              ELSE <<>>)
        ELSE <<Error(row_num, "INVALID_DATE", "Date parsing error", "Use YYYY-MM-DD format")>>

\* end_minutes < start_minutes
EndBeforeStart(hour_start, minute_start, hour_end, minute_end) ==
    hour_end * 60 + minute_end < hour_start * 60 + minute_start

\* end_minutes <= start_minutes
EndNotAfterStart(hour_start, minute_start, hour_end, minute_end) ==
    hour_end * 60 + minute_end <= hour_start * 60 + minute_start

TimeIssues(row, row_num) ==
    LET hour_start == ParseInt(row["hour_start"])
        minute_start == ParseInt(row["minute_start"])
        hour_end == ParseInt(row["hour_end"])
        minute_end == ParseInt(row["minute_end"])
    IN  IF hour_start.ok /\ minute_start.ok /\ hour_end.ok /\ minute_end.ok
        THEN (IF ~(0 <= hour_start.val /\ hour_start.val <= 23)
              THEN <<Error(row_num, "INVALID_HOUR", "hour_start out of range", "Use 0-23")>>
              ELSE <<>>)
             \o
             (IF ~(0 <= hour_end.val /\ hour_end.val <= 23)
              THEN <<Error(row_num, "INVALID_HOUR", "hour_end out of range", "Use 0-23")>>
              ELSE <<>>)
             \o
             (IF ~(0 <= minute_start.val /\ minute_start.val <= 59)
              THEN <<Error(row_num, "INVALID_MINUTE", "minute_start out of range", "Use 0-59")>>
              ELSE <<>>)
             \o
             (IF ~(0 <= minute_end.val /\ minute_end.val <= 59)
              THEN <<Error(row_num, "INVALID_MINUTE", "minute_end out of range", "Use 0-59")>>
              ELSE <<>>)
             \o
             (IF EndNotAfterStart(hour_start.val, minute_start.val, hour_end.val, minute_end.val)
              THEN <<Error(row_num, "INVALID_TIME_RANGE", "End time must be after start",
                           "Set end_time > start_time")>>
              ELSE <<>>)
        ELSE <<Error(row_num, "INVALID_TIME", "Time parsing error",
                     "Use integer values for hours/minutes")>>

\* The checks of the resolved ids, read back from the row.
ReferentialIssues(v, row, row_num) ==
    LET resolved_site_id == Get(row, "_resolved_site_id")
        resolved_floor_id == Get(row, "_resolved_floor_id")
        resolved_space_id == Get(row, "_resolved_space_id")
        resolved_owner_id == Get(row, "_resolved_owner_id")
        expected_site == Get(v.floor_to_site, resolved_floor_id)
        expected_floor == Get(v.space_to_floor, resolved_space_id)
    IN  (IF Truthy(resolved_site_id) /\ resolved_site_id \notin DOMAIN v.sites
         THEN <<Error(row_num, "INVALID_SITE", "Resolved site_id not found in system",
                      "Check site reference")>>
         ELSE <<>>)
        \o
        (IF Truthy(resolved_floor_id) /\ Truthy(resolved_site_id)
         THEN IF resolved_floor_id \notin DOMAIN v.floors
              THEN <<Error(row_num, "INVALID_FLOOR", "Resolved floor_id not found",
                           "Check floor reference")>>
              ELSE IF expected_site # resolved_site_id
                   THEN <<Error(row_num, "FLOOR_SITE_MISMATCH",
                                "Floor does not belong to specified site", "Floor belongs to site")>>
                   ELSE <<>>
         ELSE <<>>)
        \o
        (IF Truthy(resolved_space_id)
         THEN IF ~Truthy(resolved_floor_id)
              THEN <<Error(row_num, "SPACE_WITHOUT_FLOOR", "Space provided without floor",
                           "Provide floor when specifying space")>>
              ELSE IF resolved_space_id \notin DOMAIN v.spaces
                   THEN <<Error(row_num, "INVALID_SPACE", "Resolved space_id not found",
                                "Check space reference")>>
                   ELSE IF expected_floor # resolved_floor_id
                        THEN <<Error(row_num, "SPACE_FLOOR_MISMATCH",
                                     "Space does not belong to specified floor",
                                     "Space belongs to floor")>>
                        ELSE <<>>
         ELSE <<>>)
        \o
        (IF Truthy(resolved_owner_id) /\ resolved_owner_id \notin DOMAIN v.users
         THEN <<Error(row_num, "INVALID_OWNER", "Resolved owner_id not found in system",
                      "Check owner reference")>>
         ELSE <<>>)

\* dup_key
DupKey(row) ==
    << GetD(row, "_resolved_site_id", EmptyText),
       GetD(row, "_resolved_floor_id", EmptyText),
       GetD(row, "_resolved_space_id", EmptyText),
       Strip(PyStr(GetD(row, "title_en", EmptyText))),
       Strip(PyStr(GetD(row, "date_start", EmptyText))),
       Strip(PyStr(GetD(row, "hour_start", EmptyText))),
       Strip(PyStr(GetD(row, "minute_start", EmptyText))) >>

\* the duplicate check with the key added before the test
DuplicateCheckAddsFirst(row, row_num, seen_keys) ==
    [issues |-> <<Issue(row_num, "WARN", "DUPLICATE_ROW", "Duplicate job found in file",
                        <<>>, "Review if intentional")>>,
     seen_keys |-> seen_keys \cup {DupKey(row)}]

\* if dup_key in seen_keys: warn, else: seen_keys.add(dup_key)
DuplicateCheck(row, row_num, seen_keys) ==
    IF DupKey(row) \in seen_keys
    THEN [issues |-> <<Issue(row_num, "WARN", "DUPLICATE_ROW", "Duplicate job found in file",
                             <<>>, "Review if intentional")>>,
          seen_keys |-> seen_keys]
    ELSE [issues |-> <<>>, seen_keys |-> seen_keys \cup {DupKey(row)}]

\* the types without "weekdays"
ValidTypesWithoutWeekdays ==
    { <<"d", "a", "i", "l", "y">>,
      <<"w", "e", "e", "k", "l", "y">>, <<"b", "i", "w", "e", "e", "k", "l", "y">>,
      <<"m", "o", "n", "t", "h", "l", "y">> }

ValidTypes ==
    { <<"d", "a", "i", "l", "y">>, <<"w", "e", "e", "k", "d", "a", "y", "s">>,
      <<"w", "e", "e", "k", "l", "y">>, <<"b", "i", "w", "e", "e", "k", "l", "y">>,
      <<"m", "o", "n", "t", "h", "l", "y">> }

TextNone == <<"n", "o", "n", "e">>

ValidDays ==
    { <<"m", "o", "n">>, <<"t", "u", "e">>, <<"w", "e", "d">>, <<"t", "h", "u">>,
      <<"f", "r", "i">>, <<"s", "a", "t">>, <<"s", "u", "n">> }

\* the tokens cut to three letters without strip() and lower()
RECURSIVE DayTokensAsWritten(_)
DayTokensAsWritten(tokens) ==
    IF tokens = <<>> THEN <<>>
    ELSE <<First3(Head(tokens))>> \o DayTokensAsWritten(Tail(tokens))

\* [d.strip().lower()[:3] for d in tokens]
RECURSIVE DayTokens(_)
DayTokens(tokens) ==
    IF tokens = <<>> THEN <<>>
    ELSE <<First3(Lower(Strip(Head(tokens))))>> \o DayTokens(Tail(tokens))

\* [d for d in days if d not in valid_days]
RECURSIVE InvalidDays(_)
InvalidDays(days) ==
    IF days = <<>> THEN <<>>
    ELSE (IF Head(days) \in ValidDays THEN <<>> ELSE <<Head(days)>>) \o InvalidDays(Tail(days))

RecurrenceIssues(row, row_num) ==
    LET recurrence_type == Lower(Strip(PyStr(GetD(row, "recurrence_type", TextNone))))
        recurrence_end_date == Get(row, "recurrence_end_date")
        rec_end == ParseDate(recurrence_end_date)
        start == ParseDate(row["date_start"])
        recurrence_days == GetD(row, "recurrence_days", EmptyText)
        invalid_days == InvalidDays(DayTokens(Split(PyStr(recurrence_days), <<>>)))
        recurrence_interval == Get(row, "recurrence_interval")
        interval == ParseInt(recurrence_interval)
    IN  IF recurrence_type # EmptyText /\ recurrence_type \notin {EmptyText, TextNone}
        THEN (IF recurrence_type \notin ValidTypes
              THEN <<Error(row_num, "INVALID_RECURRENCE_TYPE", "recurrence_type is invalid",
                           "Use one of: daily, weekdays, weekly, biweekly, monthly")>>
              ELSE <<>>)
             \o
             (IF IsNa(recurrence_end_date) \/ Strip(PyStr(recurrence_end_date)) = EmptyText
              THEN <<Error(row_num, "MISSING_RECURRENCE_END",
                           "recurrence_end_date required for recurring jobs",
                           "Provide end date (YYYY-MM-DD) or set recurrence_type to 'none'")>>
              ELSE IF rec_end.ok /\ start.ok
                   THEN IF rec_end.val <= start.val
                        THEN <<Error(row_num, "INVALID_RECURRENCE_END",
                                     "recurrence_end_date must be after date_start",
                                     "Set end date > start date")>>
                        ELSE <<>>
                   ELSE <<Error(row_num, "INVALID_RECURRENCE_END_FORMAT",
                                "Invalid recurrence_end_date format", "Use YYYY-MM-DD format")>>)
             \o
             (IF recurrence_type \in {<<"w", "e", "e", "k", "l", "y">>,
                                      <<"b", "i", "w", "e", "e", "k", "l", "y">>}
                 /\ NotNa(recurrence_days) /\ Strip(PyStr(recurrence_days)) # EmptyText
                 /\ invalid_days # <<>>
              THEN <<Issue(row_num, "ERROR", "INVALID_RECURRENCE_DAYS", "Invalid day(s)",
                           invalid_days, "Use: Mon, Tue, Wed, Thu, Fri, Sat, Sun (comma-separated)")>>
              ELSE <<>>)
             \o
             (IF NotNa(recurrence_interval) /\ recurrence_interval # EmptyText
              THEN IF interval.ok
                   THEN IF interval.val < 1
                        THEN <<Error(row_num, "INVALID_RECURRENCE_INTERVAL",
                                     "recurrence_interval must be >= 1",
                                     "Use positive integer (1, 2, 3, etc.)")>>
                        ELSE <<>>
                   ELSE <<Error(row_num, "INVALID_RECURRENCE_INTERVAL_FORMAT",
                                "recurrence_interval must be an integer",
                                "Use whole numbers (1, 2, 3, etc.)")>>
              ELSE <<>>)
        ELSE <<>>

ValidIssue(row_num) == Issue(row_num, "OK", "VALID", "Row is valid", <<>>, "")

\* VALID appended to every list
MarkValidAlways(issues, row_num) == Append(issues, ValidIssue(row_num))

\* if not issues: issues.append(VALID)
MarkValid(issues, row_num) == IF issues = <<>> THEN <<ValidIssue(row_num)>> ELSE issues

\* validate_row with the duplicate warning appended before the referential
\* checks
ValidateResolvedDuplicateFirst(v, res, row_num, seen_keys, today) ==
    LET gate == res.issues \o RequiredFieldIssues(res.row, row_num, RequiredFields)
        dup == DuplicateCheck(res.row, row_num, seen_keys)
        all == gate \o DateIssues(res.row, row_num, today) \o TimeIssues(res.row, row_num)
                    \o dup.issues \o ReferentialIssues(v, res.row, row_num)
                    \o RecurrenceIssues(res.row, row_num)
    IN  IF GateStops(gate)
        THEN [issues |-> gate, row |-> res.row, seen_keys |-> seen_keys]
        ELSE [issues |-> MarkValid(all, row_num), row |-> res.row, seen_keys |-> dup.seen_keys]

\* validate_row after the resolution (res): the issues it returns, the row
\* as it leaves it and seen_keys as it leaves it.
ValidateResolved(v, res, row_num, seen_keys, today) ==
    LET gate == res.issues \o RequiredFieldIssues(res.row, row_num, RequiredFields)
        checks == gate \o DateIssues(res.row, row_num, today) \o TimeIssues(res.row, row_num)
                       \o ReferentialIssues(v, res.row, row_num)
        dup == DuplicateCheck(res.row, row_num, seen_keys)
        all == checks \o dup.issues \o RecurrenceIssues(res.row, row_num)
    IN  IF GateStops(gate)
        THEN [issues |-> gate, row |-> res.row, seen_keys |-> seen_keys]
        ELSE [issues |-> MarkValid(all, row_num), row |-> res.row, seen_keys |-> dup.seen_keys]

\* validate_row: the issues it returns, the row as it leaves it (with the
\* _resolved_*_id it stored) and seen_keys as it leaves it.
validate_row(v, row, row_num, seen_keys, today) ==
    ValidateResolved(v, ResolutionPhase(v, row, row_num), row_num, seen_keys, today)

(***************************************************************************)
(* The rows of the model: CSV rows as pd.read_csv gives them.              *)
(***************************************************************************)
D09 == <<"2", "0", "2", "5", "-", "0", "1", "-", "0", "9">>
D10 == <<"2", "0", "2", "5", "-", "0", "1", "-", "1", "0">>
D11 == <<"2", "0", "2", "5", "-", "0", "1", "-", "1", "1">>
D10Slash == <<"2", "0", "2", "5", "/", "0", "1", "/", "1", "0">>
NotADate == <<"t", "b", "c">>

\* datetime.now(TIMEZONE).date() at the time of a call, as YYYYMMDD
Todays == {20250110, 20250111}

\* a row that is valid on 2025-01-10, in a file without recurrence columns
BaseRow ==
    [ site_id           |-> NAN,
      site_name         |-> <<" ", "h", "Q">>,
      floor_id          |-> NAN,
      floor_name        |-> NAN,
      space_id          |-> NAN,
      space_name        |-> NAN,
      owner_employee_id |-> NAN,
      owner_name        |-> NAN,
      owner_email       |-> <<"B", "@", "x">>,
      title_en          |-> <<"T">>,
      date_start        |-> D10,
      date_end          |-> D10,
      hour_start        |-> <<"9">>,
      minute_start      |-> <<"0">>,
      hour_end          |-> <<"1", "7">>,
      minute_end        |-> <<"3", "0">> ]

SiteIds == {NAN, <<"1">>, <<"3">>, <<" ">>}
SiteNames == {NAN, <<" ", "h", "Q">>, <<"Z", "z">>}
FloorIds == {NAN, <<"1", "0">>, <<"2", "0">>, <<"4", "0">>}
FloorNames == {NAN, <<"G">>, <<"U", "p">>, <<"Q">>}
SpaceIds == {NAN, <<"5">>, <<"7">>}
SpaceNames == {NAN, <<"r">>, <<"Z">>}
OwnerIds == {NAN, <<"8">>, <<"4">>}
OwnerNames == {NAN, <<"B", "o", "b">>, <<"z", "e", "d">>}
OwnerEmails == {NAN, <<"a", "@", "x">>, <<"q", "@", "x">>}
Titles == {NAN, <<"T">>, <<" ">>}
Hours == {<<"0">>, <<"9">>, <<"2", "3">>, <<"2", "4">>, <<"x">>}
Minutes == {<<"0">>, <<"3", "0">>, <<"5", "9">>, <<"6", "0">>}
Dates == {NAN, D09, D10, D11, D10Slash, NotADate}
RecurrenceTypes ==
    {NAN, TextNone, <<" ">>, <<"W", "e", "e", "k", "l", "y">>, <<"d", "a", "i", "l", "y">>,
     <<"w", "e", "e", "k", "d", "a", "y", "s">>, <<"y", "e", "a", "r", "l", "y">>}
RecurrenceDays ==
    {NAN, <<"m", "o", "n">>, <<"M", "o", "n", ",", " ", "W", "e", "d", ",", "X", "y", "z">>}
RecurrenceIntervals == {NAN, <<"2">>, <<"0">>, <<"x">>}
RecurrenceEnds == {NAN, D10, D11, NotADate}

\* rows that differ in how the location is addressed
LocationRows ==
    { [BaseRow EXCEPT !.site_id = a, !.site_name = b, !.floor_id = c, !.floor_name = d,
                      !.space_id = e, !.space_name = f] :
        a \in SiteIds, b \in SiteNames, c \in FloorIds, d \in FloorNames,
        e \in SpaceIds, f \in SpaceNames }

\* rows that differ in how the owner is addressed
OwnerRows ==
    { [BaseRow EXCEPT !.owner_employee_id = a, !.owner_name = b, !.owner_email = c,
                      !.site_name = d, !.title_en = e] :
        a \in OwnerIds, b \in OwnerNames, c \in OwnerEmails, d \in SiteNames, e \in Titles }

\* rows that differ in the times, with and without the required fields
TimeRows ==
    { [BaseRow EXCEPT !.hour_start = a, !.minute_start = b, !.hour_end = c, !.minute_end = d,
                      !.title_en = e] :
        a \in Hours \cup {NAN}, b \in Minutes, c \in Hours, d \in Minutes,
        e \in {NAN, <<"T">>} }

\* rows that differ in the dates
DateRows ==
    { [BaseRow EXCEPT !.date_start = a, !.date_end = b, !.hour_end = c, !.site_id = d,
                      !.owner_email = e] :
        a \in Dates, b \in Dates, c \in {<<"0">>, <<"1", "7">>}, d \in {NAN, <<"3">>},
        e \in {NAN, <<"B", "@", "x">>} }

\* rows of a file that has the recurrence columns
RecurrenceRows ==
    { [recurrence_type |-> a, recurrence_days |-> b, recurrence_interval |-> c,
       recurrence_end_date |-> d] @@ [BaseRow EXCEPT !.title_en = t] :
        a \in RecurrenceTypes, b \in RecurrenceDays, c \in RecurrenceIntervals,
        d \in RecurrenceEnds, t \in {NAN, <<"T">>} }

\* rows in the two sites of the reference data, with floors and spaces of
\* either, with and without a title
HierarchyRows ==
    { [BaseRow EXCEPT !.site_name = a, !.floor_id = c, !.floor_name = d, !.space_id = e,
                      !.space_name = f, !.title_en = t] :
        a \in {<<" ", "h", "Q">>, <<"l", "a", "b">>}, c \in {NAN, <<"2", "0">>},
        d \in {NAN, <<"G">>, <<"U", "p">>}, e \in {NAN, <<"5">>, <<"7">>},
        f \in {NAN, <<"r">>}, t \in {NAN, <<"T">>} }

Rows ==
    LocationRows \cup OwnerRows \cup TimeRows \cup DateRows \cup RecurrenceRows
    \cup HierarchyRows

(***************************************************************************)
(* State                                                                   *)
(***************************************************************************)
VARIABLES
    \* one call of validate_row: its arguments and what it returned
    row,            \* the row passed in
    row_num,        \* the row number passed in
    seen_in,        \* seen_keys at the call
    today,          \* the date of the call
    called,         \* whether the call has returned
    issues,         \* the list returned
    row_out,        \* the row after the call
    seen_out,       \* seen_keys after the call
    \* one call of build_job_payload on row
    payload,        \* the payload returned
    raised,         \* whether the call raised an exception instead
    \* one entity of the reference data addressed in the two ways
    reference,      \* the reference data loaded: sites, floors, spaces, users
    record,         \* the entity: its kind, id, name and parent
    id_row,         \* a row that addresses it by explicit id
    name_row,       \* a row that addresses it by name
    by_id,          \* what the resolver returned for id_row
    by_name,        \* what the resolver returned for name_row
    \* a second call of validate_row, on the row object the first call left
    again,          \* "no", "same" (the row unchanged), "edited" (columns changed)
    edited,         \* the row handed to the second call
    issues_again,   \* the list the second call returned
    \* one construction of a JobValidator
    arguments,      \* the four lists passed to JobValidator(...)
    built,          \* the maps of the validator constructed
    build_raised,   \* whether the construction raised an exception
    \* one call of resolve_owner on row
    owner,          \* what the call returned
    \* one call of build_recurrence_preview
    settings,       \* the recurrence settings passed in
    preview,        \* the text returned
    \* one call of get_users
    users_pc,       \* "idle", "loop" (in the while loop), "returned"
    page,           \* the page requested next
    requested,      \* the page numbers requested, in the order of the requests
    fetched,        \* the answers to the requests, in their order
    all_users,      \* the list gathered
    users_returned, \* the list returned
    \* the audit of an uploaded file ("Audit & Validate"), the selection of
    \* the ready rows and the export
    csv_data,       \* st.session_state.csv_data, the rows of the file
    audit_pc,       \* "idle", "loop" (in the audit loop), "audited"
    ran,            \* the steps run on the audited file: "select", "export"
    enum_idx,       \* position of the next row of the audit loop
    all_issues,     \* the issues gathered by the audit loop
    seen_keys,      \* the seen_keys set shared by the rows of the loop
    audit_issues,   \* st.session_state.audit_issues
    ready_positions,    \* main: positions of the rows ready for import
    ready_df,           \* main: the rows ready for import
    export_positions,   \* export_run_outputs: positions of the rows written
    validated_ready,    \* export_run_outputs: rows written to validated_ready.csv
    \* the import run ("Run Import")
    responses,      \* the answers the API may give to a POST in this run
    imp_pc,         \* "idle", "loop", "row", "submit", "record", "aborted", "done"
    idx,            \* position in ready_df of the row of the import loop
    results,        \* the rows created
    failures,       \* the rows that failed
    failure_count,  \* the counter of the failure threshold
    attempt,        \* create_job_with_retry: the loop variable
    calls,          \* the create_job calls made for the row, with their answers
    returned        \* what create_job_with_retry returned for the row

resolve_vars == <<reference, record, id_row, name_row, by_id, by_name>>
again_vars == <<again, edited, issues_again>>
build_vars == <<arguments, built, build_raised>>
preview_vars == <<settings, preview>>
users_vars == <<users_pc, page, requested, fetched, all_users, users_returned>>
more_vars == <<again_vars, build_vars, owner, preview_vars, users_vars>>
call_vars == <<row, row_num, seen_in, called, issues, row_out, seen_out, payload, raised,
               resolve_vars, more_vars>>
audit_vars == <<csv_data, audit_pc, ran, enum_idx, all_issues, seen_keys, audit_issues,
                ready_positions, export_positions, validated_ready>>

import_vars == <<responses, imp_pc, idx, results, failures, failure_count, attempt, calls, returned>>

vars == <<call_vars, today, audit_vars, ready_df, import_vars>>

RowNums == {2, 3}

\* the key validate_row would store for a row, and a key of no row
KeyOf(r) == DupKey(ResolutionPhase(Validator, r, 0).row)
OtherKey == <<EmptyText, EmptyText, EmptyText, EmptyText, EmptyText, EmptyText, EmptyText>>

\* no entity is being resolved
ResolveIdle ==
    /\ reference = [sites |-> SitesData, floors |-> FloorsData, spaces |-> SpacesData,
                    users |-> UsersData]
    /\ record = EmptyDict
    /\ id_row = EmptyDict
    /\ name_row = EmptyDict
    /\ by_id = NoResult
    /\ by_name = NoResult

\* no second call of validate_row
AgainIdle ==
    /\ again = "no"
    /\ edited = EmptyDict
    /\ issues_again = <<>>

\* no validator is being constructed
BuildIdle ==
    /\ arguments = EmptyDict
    /\ built = EmptyDict
    /\ build_raised = FALSE

\* resolve_owner has not been called
OwnerIdle == owner = [id |-> NONE, error |-> ""]

\* no preview is being built
PreviewIdle ==
    /\ settings = EmptyDict
    /\ preview = ""

\* get_users is not running
UsersIdle ==
    /\ users_pc = "idle"
    /\ page = 1
    /\ requested = <<>>
    /\ fetched = <<>>
    /\ all_users = <<>>
    /\ users_returned = <<>>

MoreIdle == AgainIdle /\ BuildIdle /\ OwnerIdle /\ PreviewIdle /\ UsersIdle

\* no call of validate_row is being looked at
CallIdle ==
    /\ row = BaseRow
    /\ row_num = 0
    /\ seen_in = {}
    /\ called = FALSE
    /\ issues = <<>>
    /\ row_out = BaseRow
    /\ seen_out = {}
    /\ payload = EmptyDict
    /\ raised = FALSE
    /\ ResolveIdle
    /\ MoreIdle

\* no file has been audited
AuditIdle ==
    /\ csv_data = <<>>
    /\ audit_pc = "idle"
    /\ ran = {}
    /\ enum_idx = 0
    /\ all_issues = <<>>
    /\ seen_keys = {}
    /\ audit_issues = <<>>
    /\ ready_positions = <<>>
    /\ export_positions = <<>>
    /\ validated_ready = <<>>

\* no answer of a create_job call
NoReturn == [success |-> FALSE, result |-> [error |-> "not called"]]

\* no import has been run
ImportIdle ==
    /\ responses = {}
    /\ imp_pc = "idle"
    /\ idx = 0
    /\ results = <<>>
    /\ failures = <<>>
    /\ failure_count = 0
    /\ attempt = 0
    /\ calls = <<>>
    /\ returned = NoReturn

(***************************************************************************)
(* validate_row on one row: the arguments are drawn, the call is applied.  *)
(***************************************************************************)
InitValidate ==
    /\ row \in Rows
    /\ row_num \in RowNums
    /\ today \in Todays
    /\ seen_in \in {{OtherKey}, {OtherKey, KeyOf(row)}}
    /\ called = FALSE
    /\ issues = <<>>
    /\ row_out = row
    /\ seen_out = seen_in
    /\ payload = EmptyDict
    /\ raised = FALSE
    /\ ResolveIdle
    /\ MoreIdle
    /\ AuditIdle
    /\ ready_df = <<>>
    /\ ImportIdle

ValidateCall ==
    /\ ~called
    /\ LET ret == validate_row(Validator, row, row_num, seen_in, today)
       IN  /\ issues' = ret.issues
           /\ row_out' = ret.row
           /\ seen_out' = ret.seen_keys
    /\ called' = TRUE
    /\ UNCHANGED <<row, row_num, seen_in, payload, raised, resolve_vars, more_vars, today,
                   audit_vars, ready_df, import_vars>>

NextValidate == ValidateCall

SpecValidate == InitValidate /\ [][NextValidate]_vars

(***************************************************************************)
(* The audit of a file, the ready rows and the export                      *)
(***************************************************************************)
MaxRows == 3

\* the rows a file of the model is made of
BatchRows ==
    { BaseRow,
      [BaseRow EXCEPT !.site_id = <<"1">>, !.site_name = NAN, !.title_en = <<"T", " ">>],
      [BaseRow EXCEPT !.hour_end = <<"0">>],
      [BaseRow EXCEPT !.owner_email = NAN],
      [BaseRow EXCEPT !.floor_name = <<"G">>],
      [BaseRow EXCEPT !.floor_name = <<"Q">>] }

SeqsUpTo(S, n) == UNION { [1..k -> S] : k \in 1..n }

\* the elements of a set of numbers in increasing order (the order in which
\* list(set) gives the positions of a file of a few rows)
RECURSIVE SortedSeq(_)
SortedSeq(S) ==
    IF S = {} THEN <<>>
    ELSE LET m == CHOOSE a \in S : \A b \in S : a <= b
         IN  <<m>> \o SortedSeq(S \ {m})

\* error_positions = [rn - 1 for rn in error_row_numbers]
ErrorPositionsOffByOne(audit_df) ==
    { audit_df[i].row_number - 1 : i \in {j \in 1..Len(audit_df) : audit_df[j].status = "ERROR"} }

\* error_row_numbers = audit_df[audit_df["status"] == "ERROR"]["row_number"].unique()
\* error_positions = [rn - 2 for rn in error_row_numbers]
ErrorPositions(audit_df) ==
    { audit_df[i].row_number - 2 : i \in {j \in 1..Len(audit_df) : audit_df[j].status = "ERROR"} }

\* ready_positions = list(set(range(len(df))) - set(error_positions))
ReadyPositions(df, audit_df) == SortedSeq((0..(Len(df) - 1)) \ ErrorPositions(audit_df))

\* df.iloc[positions]
ILoc(df, positions) == [k \in 1..Len(positions) |-> df[positions[k] + 1]]

InitAudit ==
    /\ CallIdle
    /\ today \in Todays
    /\ csv_data \in SeqsUpTo(BatchRows, MaxRows)
    /\ audit_pc = "loop"
    /\ ran = {}
    /\ enum_idx = 0
    /\ all_issues = <<>>
    /\ seen_keys = {}
    /\ audit_issues = <<>>
    /\ ready_positions = <<>>
    /\ ready_df = <<>>
    /\ export_positions = <<>>
    /\ validated_ready = <<>>
    /\ ImportIdle

\* one iteration of "for enum_idx, (idx, row) in enumerate(current_df.iterrows())":
\* the row is a copy, the file's rows are left as they are
AuditRow ==
    /\ audit_pc = "loop"
    /\ enum_idx < Len(csv_data)
    /\ LET ret == validate_row(Validator, csv_data[enum_idx + 1], enum_idx + 2, seen_keys, today)
       IN  /\ all_issues' = all_issues \o ret.issues
           /\ seen_keys' = ret.seen_keys
    /\ enum_idx' = enum_idx + 1
    /\ UNCHANGED <<call_vars, import_vars, today, csv_data, audit_pc, ran, audit_issues, ready_positions,
                   ready_df, export_positions, validated_ready>>

\* after the loop: st.session_state.audit_issues = pd.DataFrame(all_issues)
AuditStore ==
    /\ audit_pc = "loop"
    /\ enum_idx = Len(csv_data)
    /\ audit_issues' = all_issues
    /\ audit_pc' = "audited"
    /\ UNCHANGED <<call_vars, import_vars, today, csv_data, ran, enum_idx, all_issues, seen_keys,
                   ready_positions, ready_df, export_positions, validated_ready>>

\* main, section 4: the rows offered for import, with their CSV row numbers
SelectReady ==
    /\ audit_pc = "audited"
    /\ "select" \notin ran
    /\ ran' = ran \cup {"select"}
    /\ LET positions == ReadyPositions(csv_data, audit_issues)
       IN  /\ ready_positions' = positions
           /\ ready_df' = [k \in 1..Len(positions) |->
                             Put(csv_data[positions[k] + 1], "_original_csv_row",
                                 positions[k] + 2)]
    /\ UNCHANGED <<call_vars, import_vars, today, csv_data, audit_pc, enum_idx, all_issues, seen_keys,
                   audit_issues, export_positions, validated_ready>>

\* export_run_outputs: validated_ready.csv
ExportRunOutputs ==
    /\ audit_pc = "audited"
    /\ "export" \notin ran
    /\ ran' = ran \cup {"export"}
    /\ LET positions == ReadyPositions(csv_data, audit_issues)
       IN  /\ export_positions' = positions
           /\ validated_ready' = ILoc(csv_data, positions)
    /\ UNCHANGED <<call_vars, import_vars, today, csv_data, audit_pc, enum_idx, all_issues, seen_keys,
                   audit_issues, ready_positions, ready_df>>

NextAudit == AuditRow \/ AuditStore \/ SelectReady \/ ExportRunOutputs

SpecAudit == InitAudit /\ [][NextAudit]_vars

(***************************************************************************)
(* The import run: the loop over the ready rows, create_job_with_retry,    *)
(* create_job                                                              *)
(***************************************************************************)
MAX_RETRIES == 3

\* FAILURE_THRESHOLD = 0.1, as the ratio 1 / 10
FAILURE_THRESHOLD_NUM == 1
FAILURE_THRESHOLD_DEN == 10

MaxImportRows == 3

\* what requests.post gives: a response (status, the X-RateLimit-Remaining
\* header or None when it is absent, the body) or an exception
Response(status_code, rate_limit, body) ==
    [kind |-> "response", status_code |-> status_code, rate_limit |-> rate_limit,
     text |-> body.text, is_json |-> body.is_json, json |-> body.json]

Timeout == [kind |-> "exception", error |-> "Read timed out"]

JobCreated == [text |-> "{id: 77}", is_json |-> TRUE, json |-> [id |-> "77"]]
NoIdBody == [text |-> "{message: ok}", is_json |-> TRUE, json |-> [message |-> "ok"]]
NotJson == [text |-> "oops", is_json |-> FALSE, json |-> [message |-> ""]]

StatusCodes == {200, 201, 204, 404, 500, 503}
RateLimits == {NONE, <<"3">>, <<"n", "/", "a">>}

FullResponses ==
    {Timeout} \cup
    { Response(c, h, b) : c \in StatusCodes, h \in RateLimits, b \in {JobCreated, NoIdBody, NotJson} }

CoarseResponses ==
    { Response(200, NONE, JobCreated), Response(401, NONE, NotJson), Response(503, NONE, NotJson) }

\* create_job, given what requests.post gave
create_job(response) ==
    IF response.kind = "exception"
    THEN [success |-> FALSE, result |-> [error |-> response.error]]
    ELSE IF response.rate_limit # NONE /\ ~ParseInt(response.rate_limit).ok
    THEN [success |-> FALSE, result |-> [error |-> "invalid literal for int()"]]
    ELSE IF response.status_code \in {200, 201}
    THEN (IF response.is_json
          THEN [success |-> TRUE, result |-> response.json]
          ELSE [success |-> FALSE, result |-> [error |-> "Expecting value"]])
    ELSE [success |-> FALSE,
          result |-> [status |-> response.status_code, body |-> response.text]]

\* result.get("status", 0)
StatusOf(result) == IF "status" \in DOMAIN result THEN result["status"] ELSE 0

\* one pass of the retry loop in which a success does not end the loop
RetryStepIgnoresSuccess(att, r) ==
    IF (r.success \/ StatusOf(r.result) >= 500) /\ att < MAX_RETRIES - 1
    THEN [done |-> FALSE, returned |-> r, attempt |-> att + 1]
    ELSE [done |-> TRUE, returned |-> r, attempt |-> att]

\* one pass of "for attempt in range(MAX_RETRIES)" after the call gave r:
\* return (done) or continue with the next attempt
RetryStep(att, r) ==
    IF r.success
    THEN [done |-> TRUE, returned |-> r, attempt |-> att]
    ELSE IF StatusOf(r.result) >= 500 /\ att < MAX_RETRIES - 1
    THEN [done |-> FALSE, returned |-> r, attempt |-> att + 1]
    ELSE [done |-> TRUE, returned |-> [success |-> FALSE, result |-> r.result], attempt |-> att]

\* build_job_payload: site_id and owner_id, with the fallback to the columns
PayloadSiteId(r) ==
    LET site_id == resolve_site(Validator, r).id
        fallback == Strip(PyStr(GetD(r, "site_id", EmptyText)))
    IN  IF Truthy(site_id) THEN site_id
        ELSE IF Truthy(fallback) THEN fallback ELSE NONE

PayloadOwnerId(r) ==
    LET owner_id == resolve_owner(Validator, r).id
        fallback == Strip(PyStr(GetD(r, "owner_employee_id", EmptyText)))
    IN  IF Truthy(owner_id) THEN owner_id
        ELSE IF Truthy(fallback) THEN fallback ELSE NONE

\* payload["locations"]
PayloadLocations(r) ==
    IF Truthy(PayloadSiteId(r)) THEN PyStr(PayloadSiteId(r)) ELSE EmptyText

\* payload["owners"]
PayloadOwners(r) ==
    IF Truthy(PayloadOwnerId(r)) /\ Truthy(Strip(PyStr(PayloadOwnerId(r))))
    THEN <<[id |-> PyStr(PayloadOwnerId(r))]>>
    ELSE <<>>

\* the import loop without the validation of the payload
NoPayloadValidation(r) == <<>>

\* validation_errors of the import loop
PayloadValidationErrors(r) ==
    (IF ~Truthy(PayloadLocations(r)) THEN <<"Missing site ID (locations)">> ELSE <<>>)
    \o (IF PayloadOwners(r) = <<>> THEN <<"Missing owner ID">> ELSE <<>>)
    \o (IF ~Truthy(Get(r, "site_name")) /\ ~Truthy(Get(r, "site_id"))
        THEN <<"Row missing site_name or site_id">> ELSE <<>>)
    \o (IF ~Truthy(Get(r, "owner_email")) /\ ~Truthy(Get(r, "owner_employee_id"))
        THEN <<"Row missing owner_email or owner_employee_id">> ELSE <<>>)

\* failure_rate = failure_count / len(results); failure_rate > FAILURE_THRESHOLD,
\* tested only if len(results) > 0
ThresholdExceeded(count, res) ==
    Len(res) > 0 /\ count * FAILURE_THRESHOLD_DEN > FAILURE_THRESHOLD_NUM * Len(res)

\* a file with the columns site_name and owner_name only for site and owner
NameColumns == DOMAIN BaseRow \ {"site_id", "owner_employee_id", "owner_email"}
OwnerNameRow ==
    [c \in NameColumns |-> IF c = "owner_name" THEN <<"b", "o", "b">> ELSE BaseRow[c]]

\* the rows the imported files are made of: a valid row, a row with an
\* ERROR (end before start)
ImportCsvRows == { BaseRow, [BaseRow EXCEPT !.hour_end = <<"0">>] }

ImportFiles ==
    SeqsUpTo(ImportCsvRows, MaxImportRows) \cup SeqsUpTo({OwnerNameRow}, MaxImportRows)

InitImport ==
    /\ CallIdle
    /\ today \in Todays
    /\ \/ csv_data \in ImportFiles /\ responses = CoarseResponses
       \/ csv_data = <<BaseRow>> /\ responses = FullResponses
    /\ audit_pc = "loop"
    /\ ran = {}
    /\ enum_idx = 0
    /\ all_issues = <<>>
    /\ seen_keys = {}
    /\ audit_issues = <<>>
    /\ ready_positions = <<>>
    /\ ready_df = <<>>
    /\ export_positions = <<>>
    /\ validated_ready = <<>>
    /\ imp_pc = "idle"
    /\ idx = 0
    /\ results = <<>>
    /\ failures = <<>>
    /\ failure_count = 0
    /\ attempt = 0
    /\ calls = <<>>
    /\ returned = NoReturn

\* "Run Import": the button is disabled when no row is ready
RunImport ==
    /\ "select" \in ran
    /\ imp_pc \in {"idle", "done", "aborted"}
    /\ Len(ready_df) # 0
    /\ imp_pc' = "loop"
    /\ idx' = 0
    /\ results' = <<>>
    /\ failures' = <<>>
    /\ failure_count' = 0
    /\ attempt' = 0
    /\ calls' = <<>>
    /\ returned' = NoReturn
    /\ UNCHANGED <<call_vars, today, audit_vars, ready_df, responses>>

\* the head of the loop over ready_df: the end of the rows, or the check of
\* the failure threshold
LoopCheck ==
    /\ imp_pc = "loop"
    /\ imp_pc' = IF idx >= Len(ready_df) THEN "done"
                 ELSE IF ThresholdExceeded(failure_count, results) THEN "aborted"
                 ELSE "row"
    /\ UNCHANGED <<call_vars, today, audit_vars, ready_df, responses, idx, results,
                   failures, failure_count, attempt, calls, returned>>

\* the payload is built and validated; a row that fails is recorded and the
\* loop continues
PrepareRow ==
    /\ imp_pc = "row"
    /\ LET r == ready_df[idx + 1]
           errors == PayloadValidationErrors(r)
       IN  IF errors # <<>>
           THEN /\ failures' = Append(failures,
                                      [csv_row |-> GetD(r, "_original_csv_row", idx + 2),
                                       status |-> "failed", error |-> errors,
                                       title |-> r["title_en"]])
                /\ idx' = idx + 1
                /\ imp_pc' = "loop"
                /\ UNCHANGED <<attempt, calls>>
           ELSE /\ imp_pc' = "submit"
                /\ attempt' = 0
                /\ calls' = <<>>
                /\ UNCHANGED <<failures, idx>>
    /\ UNCHANGED <<call_vars, today, audit_vars, ready_df, responses, results,
                   failure_count, returned>>

\* create_job_with_retry: one pass of the loop, with the call of create_job;
\* after the loop "Max retries exceeded" is returned
Attempt ==
    /\ imp_pc = "submit"
    /\ IF attempt < MAX_RETRIES
       THEN \E response \in responses :
               LET r == create_job(response)
                   step == RetryStep(attempt, r)
               IN  /\ calls' = Append(calls, [response |-> response, success |-> r.success,
                                              result |-> r.result])
                   /\ attempt' = step.attempt
                   /\ returned' = IF step.done THEN step.returned ELSE returned
                   /\ imp_pc' = IF step.done THEN "record" ELSE "submit"
       ELSE /\ returned' = [success |-> FALSE, result |-> [error |-> "Max retries exceeded"]]
            /\ imp_pc' = "record"
            /\ UNCHANGED <<calls, attempt>>
    /\ UNCHANGED <<call_vars, today, audit_vars, ready_df, responses, idx, results,
                   failures, failure_count>>

\* the outcome recorded without the loop moving on to the next row
RecordSameRowAgain ==
    /\ imp_pc = "record"
    /\ IF returned.success
       THEN /\ results' = Append(results,
                                 [csv_row |-> idx + 2, status |-> "success",
                                  job_id |-> "unknown", title |-> ready_df[idx + 1]["title_en"]])
            /\ UNCHANGED <<failures, failure_count>>
       ELSE /\ failure_count' = failure_count + 1
            /\ failures' = Append(failures,
                                  [csv_row |-> idx + 2, status |-> "failed",
                                   error |-> returned.result,
                                   title |-> ready_df[idx + 1]["title_en"]])
            /\ UNCHANGED results
    /\ imp_pc' = "row"
    /\ UNCHANGED <<call_vars, today, audit_vars, ready_df, responses, idx, attempt, calls,
                   returned>>

\* the outcome of the row is recorded
Record ==
    /\ imp_pc = "record"
    /\ LET r == ready_df[idx + 1]
           csv_row == GetD(r, "_original_csv_row", idx + 2)
       IN  IF returned.success
           THEN /\ results' = Append(results,
                                     [csv_row |-> csv_row, status |-> "success",
                                      job_id |-> IF "id" \in DOMAIN returned.result
                                                 THEN returned.result["id"] ELSE "unknown",
                                      title |-> r["title_en"]])
                /\ UNCHANGED <<failures, failure_count>>
           ELSE /\ failure_count' = failure_count + 1
                /\ failures' = Append(failures,
                                      [csv_row |-> csv_row, status |-> "failed",
                                       error |-> returned.result, title |-> r["title_en"]])
                /\ UNCHANGED results
    /\ idx' = idx + 1
    /\ imp_pc' = "loop"
    /\ UNCHANGED <<call_vars, today, audit_vars, ready_df, responses, attempt, calls, returned>>

NextImport ==
    \/ AuditRow
    \/ AuditStore
    \/ SelectReady
    \/ RunImport
    \/ LoopCheck
    \/ PrepareRow
    \/ Attempt
    \/ Record

SpecImport == InitImport /\ [][NextImport]_vars

(***************************************************************************)
(* build_job_payload on one row.  Besides texts, None and NaN a row of the *)
(* edited data holds booleans, numbers (given by their digits) and dates   *)
(* (datetime.date objects, from st.date_input).                            *)
(***************************************************************************)
PyTrue == <<"True">>
PyFalse == <<"False">>

\* a datetime.date, given by its ISO text
DateObject(text) == <<"date">> \o text
IsDateObject(x) == x # <<>> /\ x[1] = "date"

\* bool(x) of None, NaN, a boolean, a text or a date
Bool(x) == x \notin {NONE, EmptyText, PyFalse}

\* str(n) of an integer
RECURSIVE NatText(_)
NatText(n) ==
    IF n < 10 THEN <<DigitChars[n + 1]>> ELSE Append(NatText(n \div 10), DigitChars[(n % 10) + 1])

IntText(n) == IF n < 0 THEN <<"-">> \o NatText(0 - n) ELSE NatText(n)

\* floor_id and space_id of build_job_payload: the resolvers are called with
\* the ids as resolved, the fallback to the raw columns comes after
PayloadFloorId(r) ==
    LET floor_id == resolve_floor(Validator, r, resolve_site(Validator, r).id).id
        fallback == Strip(PyStr(GetD(r, "floor_id", EmptyText)))
    IN  IF Truthy(floor_id) THEN floor_id
        ELSE IF Truthy(fallback) THEN fallback ELSE NONE

PayloadSpaceId(r) ==
    LET floor_id == resolve_floor(Validator, r, resolve_site(Validator, r).id).id
        space_id == resolve_space(Validator, r, floor_id).id
        fallback == Strip(PyStr(GetD(r, "space_id", EmptyText)))
    IN  IF Truthy(space_id) THEN space_id
        ELSE IF Truthy(fallback) THEN fallback ELSE NONE

\* floors_spaces: the JSON array [] or the JSON object {floor_id: [space_id]},
\* an object given by the list of its entries
FloorsSpaces(floor_id, space_id) ==
    IF Truthy(floor_id) /\ Truthy(space_id)
    THEN [kind |-> "object", entries |-> <<[key |-> floor_id, value |-> <<space_id>>]>>]
    ELSE [kind |-> "array", entries |-> <<>>]

\* end_after_date, a date object turned into its text
EndAfterDate(r) ==
    IF Bool(Get(r, "end_after_date")) /\ IsDateObject(Get(r, "end_after_date"))
    THEN Tail(Get(r, "end_after_date"))
    ELSE Get(r, "end_after_date")

\* date_end of the payload
DateEnd(r, is_recurring, end_after_date) ==
    IF is_recurring /\ Bool(end_after_date) THEN PyStr(end_after_date)
    ELSE PyStr(r["date_end"])

\* description_en, "" for an empty cell
Description(r) ==
    IF IsNa(GetD(r, "description_en", EmptyText)) THEN EmptyText
    ELSE PyStr(GetD(r, "description_en", EmptyText))

\* the int() calls of build_job_payload all succeed
IntsConvert(r) ==
    /\ ParseInt(GetD(r, "repeat_interval_length", <<"1">>)).ok
    /\ ParseInt(r["hour_start"]).ok /\ ParseInt(r["minute_start"]).ok
    /\ ParseInt(r["hour_end"]).ok /\ ParseInt(r["minute_end"]).ok

\* the base payload; the keys whose value is the same for every row are
\* left out
BasePayload(r, is_recurring) ==
    [ sequence_date        |-> IF is_recurring THEN PyStr(r["date_start"]) ELSE NONE,
      title                |-> PyStr(r["title_en"]),
      description          |-> Description(r),
      date_start           |-> PyStr(r["date_start"]),
      date_end             |-> DateEnd(r, is_recurring, EndAfterDate(r)),
      hour_start           |-> IntText(ParseInt(r["hour_start"]).val),
      minute_start         |-> IntText(ParseInt(r["minute_start"]).val),
      hour_end             |-> IntText(ParseInt(r["hour_end"]).val),
      minute_end           |-> IntText(ParseInt(r["minute_end"]).val),
      locations            |-> PayloadLocations(r),
      floors_spaces        |-> FloorsSpaces(PayloadFloorId(r), PayloadSpaceId(r)),
      owners               |-> PayloadOwners(r),
      task_complete_emails |-> IF is_recurring THEN PyFalse ELSE PyTrue,
      task_canceled_emails |-> IF is_recurring THEN PyFalse ELSE PyTrue ]

\* the stop fields with both of them added for every stop mode
StopFieldsBoth(p, frequency_stop_repeat, number_value, end_after_date) ==
    IF frequency_stop_repeat = <<"0">> THEN p
    ELSE Put(Put(p, "frequency_stop_repeat_number_value", number_value),
             "end_after_date", end_after_date)

\* "only include the appropriate stop field"
StopFields(p, frequency_stop_repeat, number_value, end_after_date) ==
    IF frequency_stop_repeat = <<"0">> THEN p
    ELSE IF frequency_stop_repeat = <<"1">>
    THEN Put(p, "frequency_stop_repeat_number_value", number_value)
    ELSE IF frequency_stop_repeat = <<"2">> /\ Bool(end_after_date)
    THEN Put(p, "end_after_date", end_after_date)
    ELSE p

\* the recurrence fields of a recurring job
RecurringFields(r) ==
    [ repeat_interval_length   |-> IntText(ParseInt(GetD(r, "repeat_interval_length", <<"1">>)).val),
      use_day_of_week          |-> IF Bool(GetD(r, "use_day_of_week", PyFalse))
                                   THEN PyTrue ELSE PyFalse,
      frequency_daily_repeat   |-> GetD(r, "frequency_daily_repeat", EmptyText),
      frequency_weekly_repeat  |-> GetD(r, "frequency_weekly_repeat", EmptyText),
      frequency_monthly_repeat |-> GetD(r, "frequency_monthly_repeat", EmptyText),
      frequency_stop_repeat    |-> Get(r, "frequency_stop_repeat"),
      repeat_interval_period   |-> Get(r, "repeat_interval_period") ]

\* the recurrence fields of a one-off job
OneOffFields ==
    [ repeat_interval_length             |-> <<"1">>,
      use_day_of_week                    |-> PyFalse,
      frequency_daily_repeat             |-> EmptyText,
      frequency_weekly_repeat            |-> EmptyText,
      frequency_monthly_repeat           |-> EmptyText,
      frequency_stop_repeat              |-> NONE,
      frequency_stop_repeat_number_value |-> NONE,
      repeat_interval_period             |-> NONE ]

\* build_job_payload: the payload returned, or raised when an int() fails
build_job_payload(r) ==
    IF ~IntsConvert(r) THEN [raised |-> TRUE, payload |-> EmptyDict]
    ELSE IF Bool(GetD(r, "is_recurring", PyFalse))
    THEN [raised |-> FALSE,
          payload |-> StopFields(RecurringFields(r) @@ BasePayload(r, TRUE),
                                 Get(r, "frequency_stop_repeat"),
                                 Get(r, "frequency_stop_repeat_number_value"),
                                 EndAfterDate(r))]
    ELSE [raised |-> FALSE, payload |-> OneOffFields @@ BasePayload(r, FALSE)]

\* the row without some of its columns
Without(r, cols) == [c \in DOMAIN r \ cols |-> r[c]]

IdColumns == {"site_id", "floor_id", "space_id", "owner_employee_id"}

D31 == <<"2", "0", "2", "5", "-", "1", "2", "-", "3", "1">>

\* rows that differ in the location and the owner, in files with and
\* without the id columns, one-off and recurring
PayloadLocationRows ==
    { [is_recurring |-> i] @@
      Without([BaseRow EXCEPT !.site_name = a, !.floor_name = b, !.space_name = c,
                              !.space_id = d, !.owner_email = e], cols) :
        i \in {PyFalse, PyTrue}, a \in {<<" ", "h", "Q">>, <<"Z", "z">>},
        b \in {NAN, <<"G">>}, c \in {NAN, <<"r">>}, d \in {NAN, <<"5">>},
        e \in {<<"B", "@", "x">>, <<"q", "@", "x">>}, cols \in {{}, IdColumns} }

\* rows that differ in the recurrence settings the edit form (or the file)
\* gave them
PayloadRecurrenceRows ==
    { [is_recurring |-> i, repeat_interval_period |-> p, repeat_interval_length |-> l,
       use_day_of_week |-> PyFalse, frequency_daily_repeat |-> w,
       frequency_weekly_repeat |-> EmptyText, frequency_monthly_repeat |-> EmptyText,
       frequency_stop_repeat |-> s, frequency_stop_repeat_number_value |-> n,
       end_after_date |-> e] @@ [BaseRow EXCEPT !.date_end = d, !.hour_start = h] :
        i \in {PyFalse, PyTrue, NONE, NAN}, p \in {NONE, <<"d", "a", "i", "l", "y">>},
        l \in {<<"1">>, <<"2">>, NAN}, w \in {EmptyText, <<"1", ",", "2">>},
        s \in {NONE, NAN, <<"0">>, <<"1">>, <<"2">>}, n \in {NONE, NAN, <<"1", "0">>},
        e \in {NONE, NAN, D31, DateObject(D31)}, d \in {D10, D11},
        h \in {<<"0", "9">>, <<"x">>} }

PayloadRows == PayloadLocationRows \cup PayloadRecurrenceRows \cup {BaseRow}

InitPayload ==
    /\ row \in PayloadRows
    /\ row_num = 0
    /\ seen_in = {}
    /\ called = FALSE
    /\ issues = <<>>
    /\ row_out = row
    /\ seen_out = {}
    /\ payload = EmptyDict
    /\ raised = FALSE
    /\ ResolveIdle
    /\ MoreIdle
    /\ today \in Todays
    /\ AuditIdle
    /\ ready_df = <<>>
    /\ ImportIdle

BuildPayload ==
    /\ ~called
    /\ payload' = build_job_payload(row).payload
    /\ raised' = build_job_payload(row).raised
    /\ called' = TRUE
    /\ UNCHANGED <<row, row_num, seen_in, issues, row_out, seen_out, resolve_vars, more_vars,
                   today, audit_vars, ready_df, import_vars>>

NextPayload == BuildPayload

SpecPayload == InitPayload /\ [][NextPayload]_vars

(***************************************************************************)
(* The resolvers on one entity of the reference data, addressed by its id  *)
(* and by its name.  The API gives the lists in any order.                 *)
(***************************************************************************)
Reverse(s) == [i \in 1..Len(s) |-> s[Len(s) + 1 - i]]

References ==
    { [sites |-> s, floors |-> f, spaces |-> p, users |-> u] :
        s \in {SitesData, Reverse(SitesData)}, f \in {FloorsData, Reverse(FloorsData)},
        p \in {SpacesData, Reverse(SpacesData)}, u \in {UsersData, Reverse(UsersData)} }

\* the entries of a list that have an id
WithId(entries) == {entries[i] : i \in {j \in 1..Len(entries) : HasId(entries[j])}}

Entity(kind, id, name, parent) == [kind |-> kind, id |-> PyStr(id), name |-> name, parent |-> parent]

\* the entities of the reference data that have a name, each with the
\* parent its entry records
Records ==
    { Entity("site", e.d["id"], Or3(Get(e.d, "name"), Get(e.d, "site_name"), Get(e.d, "title")),
             NONE) : e \in WithId(SitesData) }
    \cup
    { Entity("floor", e.d["id"], Or3(Get(e.d, "name"), Get(e.d, "floor_name"), Get(e.d, "title")),
             Or3(Get(e.d, "siteId"), Get(e.d, "site_id"), Get(e.d, "location_id"))) :
        e \in WithId(FloorsData) }
    \cup
    { Entity("space", e.d["id"], Or3(Get(e.d, "name"), Get(e.d, "space_name"), Get(e.d, "title")),
             Or3(Get(e.d, "floorId"), Get(e.d, "floor_id"), NONE)) : e \in WithId(SpacesData) }
    \cup
    { Entity("user", e.d["id"], Or3(Get(e.d, "user_name"), Get(e.d, "username"), Get(e.d, "name")),
             NONE) : e \in {u \in WithId(UsersData) :
                              Truthy(Or3(Get(u.d, "user_name"), Get(u.d, "username"),
                                         Get(u.d, "name")))} }
    \cup
    { Entity("email", e.d["id"], Get(e.d, "email"), NONE) :
        e \in {u \in WithId(UsersData) : Truthy(Get(u.d, "email"))} }

IdColumn(kind) ==
    CASE kind = "site" -> "site_id" [] kind = "floor" -> "floor_id"
      [] kind = "space" -> "space_id" [] OTHER -> "owner_employee_id"

NameColumn(kind) ==
    CASE kind = "site" -> "site_name" [] kind = "floor" -> "floor_name"
      [] kind = "space" -> "space_name" [] kind = "user" -> "owner_name"
      [] OTHER -> "owner_email"

\* the addressing columns of a row, all empty
NoAddress ==
    [ site_id |-> NAN, site_name |-> NAN, floor_id |-> NAN, floor_name |-> NAN,
      space_id |-> NAN, space_name |-> NAN, owner_employee_id |-> NAN, owner_name |-> NAN,
      owner_email |-> NAN ]

\* str() of the cell pd.read_csv gives for the integer id: the integer in a
\* column of integers, a float in a column that also has an empty cell
IdCells(id) == {id, id \o <<".", "0">>}

\* the name as the file may write it
NameCells(name) == {name, <<" ">> \o Lower(name)}

\* the resolver of the entity's kind, called with the entity's parent as
\* the resolved parent
ResolveEntity(v, rec, r) ==
    CASE rec.kind = "site" -> resolve_site(v, r)
      [] rec.kind = "floor" -> resolve_floor(v, r, IF rec.parent = NONE THEN NONE
                                                    ELSE PyStr(rec.parent))
      [] rec.kind = "space" -> resolve_space(v, r, IF rec.parent = NONE THEN NONE
                                                    ELSE PyStr(rec.parent))
      [] OTHER -> resolve_owner(v, r)

InitResolve ==
    /\ reference \in References
    /\ record \in Records
    /\ id_row \in {[NoAddress EXCEPT ![IdColumn(record.kind)] = c] : c \in IdCells(record.id)}
    /\ name_row \in {[NoAddress EXCEPT ![NameColumn(record.kind)] = n] :
                        n \in NameCells(record.name)}
    /\ by_id = NoResult
    /\ by_name = NoResult
    /\ row = BaseRow
    /\ row_num = 0
    /\ seen_in = {}
    /\ called = FALSE
    /\ issues = <<>>
    /\ row_out = BaseRow
    /\ seen_out = {}
    /\ payload = EmptyDict
    /\ raised = FALSE
    /\ MoreIdle
    /\ today \in Todays
    /\ AuditIdle
    /\ ready_df = <<>>
    /\ ImportIdle

ResolveBoth ==
    /\ ~called
    /\ by_id' = ResolveEntity(JobValidator(reference.sites, reference.floors,
                                           reference.spaces, reference.users), record, id_row)
    /\ by_name' = ResolveEntity(JobValidator(reference.sites, reference.floors,
                                             reference.spaces, reference.users), record, name_row)
    /\ called' = TRUE
    /\ UNCHANGED <<row, row_num, seen_in, issues, row_out, seen_out, payload, raised,
                   reference, record, id_row, name_row, more_vars, today, audit_vars,
                   ready_df, import_vars>>

NextResolve == ResolveBoth

SpecResolve == InitResolve /\ [][NextResolve]_vars

(***************************************************************************)
(* What the claims speak of, stated on the arguments of the call           *)
(***************************************************************************)
Codes(iss) == {iss[i].issue_code : i \in 1..Len(iss)}

CountCode(iss, code) == Cardinality({i \in 1..Len(iss) : iss[i].issue_code = code})

\* a cell that is missing or blank
Blank(r, col) == col \notin DOMAIN r \/ r[col] = NAN \/ Strip(r[col]) = EmptyText

\* the row passes the required-field gate: site and owner resolve and the
\* seven required fields are present
PassesGate(r) ==
    /\ resolve_site(Validator, r).error = ""
    /\ resolve_owner(Validator, r).error = ""
    /\ \A i \in 1..Len(RequiredFields) : ~Blank(r, RequiredFields[i])

\* the four time fields are integers
TimesAreIntegers(r) ==
    /\ \A col \in {"hour_start", "minute_start", "hour_end", "minute_end"} :
          col \in DOMAIN r /\ r[col] # NAN /\ ParseInt(r[col]).ok

StartMinutes(r) == ParseInt(r["hour_start"]).val * 60 + ParseInt(r["minute_start"]).val
EndMinutes(r) == ParseInt(r["hour_end"]).val * 60 + ParseInt(r["minute_end"]).val

\* both dates parse
DatesParse(r) ==
    /\ r["date_start"] # NAN /\ ParseDate(r["date_start"]).ok
    /\ r["date_end"] # NAN /\ ParseDate(r["date_end"]).ok

\* an issue of the resolution phase or of the required-field check
IsGatePhaseIssue(i) ==
    \/ i.issue_code \in GateCodes
    \/ i.issue_code = "INVALID_FLOOR" /\ i.suggestion = "Check floor_id or floor_name"
    \/ i.issue_code = "INVALID_SPACE" /\ i.suggestion = "Check space_id or space_name"

(***************************************************************************)
(* C4..C6, C9, C10: validate_row on one row (SpecValidate)                 *)
(***************************************************************************)

\* C4: once MISSING_SITE, MISSING_OWNER or MISSING_REQUIRED has been emitted,
\* validate_row returns after the required-field check: every issue of the
\* returned list comes from the resolution phase or the required-field check
\* (no date, time, referential, hierarchy, duplicate or recurrence issue and
\* no VALID).
C4_GateReturnsEarly ==
    (called /\ Codes(issues) \cap GateCodes # {})
        => \A i \in 1..Len(issues) : IsGatePhaseIssue(issues[i])

\* C4 witness: the owner is missing in a row whose date is past and whose key
\* is already in seen_keys, and the call has returned.
C4_Witness ==
    /\ called
    /\ "MISSING_OWNER" \in Codes(issues)
    /\ DatesParse(row) /\ ParseDate(row["date_start"]).val < today
    /\ KeyOf(row) \in seen_in

\* C5: a row with site_id and site_name both missing or blank gets exactly
\* one MISSING_SITE, an ERROR; gets no issue other than those of the gate
\* (so no INVALID_SITE, FLOOR_SITE_MISMATCH, date, time or referential
\* issue); and no floor or space is resolved for it.
C5_MissingSite ==
    (called /\ Blank(row, "site_id") /\ Blank(row, "site_name"))
        => /\ CountCode(issues, "MISSING_SITE") = 1
           /\ \A i \in 1..Len(issues) :
                 /\ issues[i].issue_code \in GateCodes
                 /\ issues[i].status = "ERROR"
           /\ {"_resolved_site_id", "_resolved_floor_id", "_resolved_space_id"}
                 \cap DOMAIN row_out = {}

\* C5 witness: such a row that names a floor and a space, validated.
C5_Witness ==
    /\ called
    /\ Blank(row, "site_id") /\ Blank(row, "site_name")
    /\ ~Blank(row, "floor_name") /\ ~Blank(row, "space_id")
    /\ "MISSING_SITE" \in Codes(issues)

\* C6: the returned list is never empty; it holds VALID exactly when no
\* ERROR or WARN issue was produced, and then VALID (status OK) is its only
\* element; every issue carries the row number of the call.
C6_ValidIffNoIssue ==
    called
        => /\ Len(issues) >= 1
           /\ ("VALID" \in Codes(issues))
                 <=> (\A i \in 1..Len(issues) : issues[i].status \notin {"ERROR", "WARN"})
           /\ ("VALID" \in Codes(issues))
                 => (Len(issues) = 1 /\ issues[1].status = "OK")
           /\ \A i \in 1..Len(issues) : issues[i].row_number = row_num

\* C6 witness: a call that returned the single VALID issue.
C6_Witness ==
    /\ called
    /\ issues = <<ValidIssue(row_num)>>
    /\ row_num = 3

\* C9 as stated: for every row whose hour and minute fields are integers,
\* INVALID_TIME_RANGE is emitted if and only if
\* hour_end*60 + minute_end <= hour_start*60 + minute_start.
C9_Original ==
    (called /\ TimesAreIntegers(row))
        => (("INVALID_TIME_RANGE" \in Codes(issues)) <=> (EndMinutes(row) <= StartMinutes(row)))

\* C9 amended: the same for every row that passes the required-field gate.
C9_TimeRange ==
    (called /\ PassesGate(row) /\ TimesAreIntegers(row))
        => /\ ("INVALID_TIME_RANGE" \in Codes(issues)) <=> (EndMinutes(row) <= StartMinutes(row))
           /\ CountCode(issues, "INVALID_TIME_RANGE") <= 1

\* C9 witness: 23:59 to 00:00 on a row that passes the gate is reported.
C9_Witness ==
    /\ called
    /\ PassesGate(row)
    /\ row["hour_start"] = <<"2", "3">> /\ row["minute_start"] = <<"5", "9">>
    /\ row["hour_end"] = <<"0">> /\ row["minute_end"] = <<"0">>
    /\ "INVALID_TIME_RANGE" \in Codes(issues)

\* C10: for a row that passes the gate and whose dates parse, PAST_DATE (an
\* ERROR) is emitted if and only if date_start is before today, and the
\* later checks of the row still run: the date range, the time range, the
\* site's existence and the duplicate check report what they find.
C10_PastDate ==
    (called /\ PassesGate(row) /\ DatesParse(row))
        => /\ ("PAST_DATE" \in Codes(issues))
                 <=> (ParseDate(row["date_start"]).val < today)
           /\ \A i \in 1..Len(issues) :
                 issues[i].issue_code = "PAST_DATE" => issues[i].status = "ERROR"
           /\ ("INVALID_DATE_RANGE" \in Codes(issues))
                 <=> (ParseDate(row["date_end"]).val < ParseDate(row["date_start"]).val)
           /\ TimesAreIntegers(row)
                 => (("INVALID_TIME_RANGE" \in Codes(issues))
                        <=> (EndMinutes(row) <= StartMinutes(row)))
           /\ ("INVALID_SITE" \in Codes(issues))
                 <=> (resolve_site(Validator, row).id \notin DOMAIN Validator.sites)
           /\ ("DUPLICATE_ROW" \in Codes(issues)) <=> (KeyOf(row) \in seen_in)

\* C10 witness: a past date_start reported together with the findings of
\* the later checks.
C10_Witness ==
    /\ called
    /\ {"PAST_DATE", "INVALID_DATE_RANGE", "INVALID_TIME_RANGE", "INVALID_SITE",
        "DUPLICATE_ROW"} \subseteq Codes(issues)

\* a date_start equal to today is accepted
C10_TodayAccepted ==
    /\ called
    /\ PassesGate(row) /\ DatesParse(row)
    /\ ParseDate(row["date_start"]).val = today
    /\ "PAST_DATE" \notin Codes(issues)

(***************************************************************************)
(* The audit loop and the ready rows                                       *)
(***************************************************************************)
\* the issues of the audit for one row number
RowIssues(audit_df, rn) == SelectSeq(audit_df, LAMBDA i : i.row_number = rn)

WithoutCode(iss, code) == SelectSeq(iss, LAMBDA i : i.issue_code # code)

\* the id a resolution gave, the empty text when it gave none
IdOrEmpty(res) == IF res.error = "" /\ res.id # NONE THEN res.id ELSE EmptyText

\* the key of a row that passes the gate: resolved site, floor and space,
\* title, date_start, hour_start, minute_start
ClaimKey(r) ==
    LET site == resolve_site(Validator, r)
        floor == IdOrEmpty(resolve_floor(Validator, r, site.id))
        space == IF floor = EmptyText THEN EmptyText
                 ELSE IdOrEmpty(resolve_space(Validator, r, floor))
    IN  <<site.id, floor, space, Strip(r["title_en"]), Strip(r["date_start"]),
          Strip(r["hour_start"]), Strip(r["minute_start"])>>

\* an earlier row of the file passed the gate with the key of row i
EarlierSameKey(i) ==
    \E j \in 1..(i - 1) :
        PassesGate(csv_data[j]) /\ ClaimKey(csv_data[j]) = ClaimKey(csv_data[i])

\* C7: in the audit loop, with its one seen_keys set, a row that passes the
\* gate gets exactly one WARN DUPLICATE_ROW when an earlier row that passed
\* the gate had the same key, and none otherwise; the first row with a key
\* is not flagged; the warning comes on top of the issues the row has on
\* its own; a row that stops at the gate is not flagged and adds no key.
C7_DuplicateRow ==
    /\ \A i \in 1..enum_idx :
          LET r == csv_data[i]
              mine == RowIssues(all_issues, i + 1)
              dups == SelectSeq(mine, LAMBDA x : x.issue_code = "DUPLICATE_ROW")
              alone == validate_row(Validator, r, i + 1, {}, today).issues
          IN  /\ Len(dups) = (IF PassesGate(r) /\ EarlierSameKey(i) THEN 1 ELSE 0)
              /\ \A k \in 1..Len(dups) : dups[k].status = "WARN"
              /\ WithoutCode(WithoutCode(mine, "DUPLICATE_ROW"), "VALID")
                   = WithoutCode(alone, "VALID")
    /\ seen_keys = { ClaimKey(csv_data[j]) :
                       j \in {k \in 1..enum_idx : PassesGate(csv_data[k])} }

\* a file of three rows: the first is valid, the second stops at the gate
\* (no owner), the third has the key of the first and an end before its
\* start: it gets the time error and the duplicate warning
C7_Witness ==
    /\ audit_pc = "audited"
    /\ Len(csv_data) = 3
    /\ Codes(RowIssues(audit_issues, 2)) = {"VALID"}
    /\ ~PassesGate(csv_data[2])
    /\ Codes(RowIssues(audit_issues, 3)) = {"MISSING_OWNER"}
    /\ Codes(RowIssues(audit_issues, 4)) = {"INVALID_TIME_RANGE", "DUPLICATE_ROW"}

\* the audit holds an ERROR issue for the row number
HasError(audit_df, rn) ==
    \E i \in 1..Len(audit_df) : audit_df[i].row_number = rn /\ audit_df[i].status = "ERROR"

InSeq(x, seq) == \E k \in 1..Len(seq) : seq[k] = x

NoRepeat(seq) == \A j, k \in 1..Len(seq) : seq[j] = seq[k] => j = k

\* C8: the row at a position of the file is offered for import, and is
\* written to validated_ready.csv, exactly when the audit holds no ERROR
\* issue with row_number = position + 2; the rows offered and written are
\* the rows of the file at these positions, each once.
C8_ReadyRows ==
    /\ "select" \in ran =>
          /\ \A p \in 0..(Len(csv_data) - 1) :
                InSeq(p, ready_positions) <=> ~HasError(audit_issues, p + 2)
          /\ NoRepeat(ready_positions)
          /\ Len(ready_df) = Len(ready_positions)
          /\ \A k \in 1..Len(ready_df) :
                /\ ready_df[k]["_original_csv_row"] = ready_positions[k] + 2
                /\ \A col \in DOMAIN csv_data[ready_positions[k] + 1] :
                      ready_df[k][col] = csv_data[ready_positions[k] + 1][col]
    /\ "export" \in ran =>
          /\ \A p \in 0..(Len(csv_data) - 1) :
                InSeq(p, export_positions) <=> ~HasError(audit_issues, p + 2)
          /\ NoRepeat(export_positions)
          /\ Len(validated_ready) = Len(export_positions)
          /\ \A k \in 1..Len(validated_ready) :
                validated_ready[k] = csv_data[export_positions[k] + 1]

\* a file of three rows whose second row has an ERROR and whose third row
\* has only the duplicate warning: the first and the third are offered and
\* written
C8_Witness ==
    /\ ran = {"select", "export"}
    /\ Len(csv_data) = 3
    /\ HasError(audit_issues, 3)
    /\ Codes(RowIssues(audit_issues, 4)) = {"DUPLICATE_ROW"}
    /\ ready_positions = <<0, 2>>
    /\ Len(validated_ready) = 2

(***************************************************************************)
(* The import run                                                          *)
(***************************************************************************)
\* the submissions recorded so far in the run
Attempted == Len(results) + failure_count

\* more than FAILURE_THRESHOLD of the submissions recorded so far failed
FailedFractionExceeded ==
    /\ Attempted > 0
    /\ failure_count * FAILURE_THRESHOLD_DEN > FAILURE_THRESHOLD_NUM * Attempted

\* C1: once at least one submission has been attempted and the failed
\* fraction of the attempted ones exceeds 10%, the import aborts: no row is
\* prepared or submitted while that fraction is exceeded.
C1_FailureRateAborts ==
    imp_pc \in {"row", "submit"} => ~FailedFractionExceeded

\* the answer of requests.post has a 5xx status
HttpStatus5xx(response) ==
    response.kind = "response" /\ response.status_code \in 500..599

\* the k-th call for the row was followed by a decision to call again
Retried(k) == k < Len(calls) \/ (k = Len(calls) /\ imp_pc = "submit")

C2_Inv ==
    /\ Len(calls) <= MAX_RETRIES
    /\ \A k \in 1..(Len(calls) - 1) : ~calls[k].success
    /\ imp_pc = "submit" => Len(calls) < MAX_RETRIES
    /\ imp_pc = "record" =>
          /\ Len(calls) >= 1
          /\ returned.success = calls[Len(calls)].success
          /\ returned.result = calls[Len(calls)].result

C2_Step ==
    imp_pc = "submit" =>
        \/ imp_pc' = "record"
        \/ imp_pc' = "submit" /\ Len(calls') = Len(calls) + 1

\* C2: create_job_with_retry makes at most MAX_RETRIES = 3 create_job calls
\* for a payload whatever the API answers: every pass of its loop returns or
\* adds one call and a call is only made while fewer than 3 were made; no
\* call follows a successful one, and what the last call gave is returned.
C2_BoundedRetry == [](C2_Inv) /\ [][C2_Step]_vars

\* two 5xx answers, then a success on the third and last call
C2_Witness ==
    /\ imp_pc = "record"
    /\ Len(calls) = MAX_RETRIES
    /\ HttpStatus5xx(calls[1].response)
    /\ HttpStatus5xx(calls[2].response)
    /\ returned.success

\* C3: a failed create_job call is followed by another call if and only if
\* the HTTP status of the answer is 5xx and fewer than 3 calls have been
\* made for the payload.
C3_RetryIff5xx ==
    \A k \in 1..Len(calls) :
        ~calls[k].success =>
            (Retried(k) <=> (HttpStatus5xx(calls[k].response) /\ k < MAX_RETRIES))

(***************************************************************************)
(* C11, C12: the hierarchy of site, floor and space (SpecValidate)         *)
(***************************************************************************)
\* the site, the floor and the space validate_row resolves for a row whose
\* site resolves (NONE when none is named or the name is unknown)
SiteOf(r) == resolve_site(Validator, r).id
FloorOf(r) == resolve_floor(Validator, r, SiteOf(r)).id
SpaceOf(r) ==
    IF Truthy(FloorOf(r)) THEN resolve_space(Validator, r, FloorOf(r)).id ELSE NONE

SpecifiesSpace(r) == ~Blank(r, "space_id") \/ ~Blank(r, "space_name")

\* C11: a row that passes the gate, names a space and has no resolved floor
\* gets ERROR SPACE_WITHOUT_FLOOR and is not reported VALID.
C11_SpaceWithoutFloor ==
    (called /\ PassesGate(row) /\ SpecifiesSpace(row) /\ ~Truthy(FloorOf(row)))
        => /\ "SPACE_WITHOUT_FLOOR" \in Codes(issues)
           /\ "VALID" \notin Codes(issues)

\* the entry of the reference data with the id (the last one, as in a dict)
RECURSIVE EntryWithId(_, _, _)
EntryWithId(entries, id, found) ==
    IF entries = <<>> THEN found
    ELSE EntryWithId(Tail(entries), id,
                     IF HasId(Head(entries)) /\ PyStr(Get(Head(entries).d, "id")) = id
                     THEN Head(entries) ELSE found)

\* the site a floor of the reference data belongs to, the floor a space
\* belongs to (NONE when the entry names no parent)
ParentSite(floor_id) ==
    LET e == EntryWithId(FloorsData, floor_id, NotADict)
    IN  Or3(Get(e.d, "siteId"), Get(e.d, "site_id"), Get(e.d, "location_id"))

ParentFloor(space_id) ==
    LET e == EntryWithId(SpacesData, space_id, NotADict)
    IN  Or3(Get(e.d, "floorId"), Get(e.d, "floor_id"), NONE)

IsFloor(id) == \E i \in 1..Len(FloorsData) :
                  HasId(FloorsData[i]) /\ PyStr(Get(FloorsData[i].d, "id")) = id
IsSpace(id) == \E i \in 1..Len(SpacesData) :
                  HasId(SpacesData[i]) /\ PyStr(Get(SpacesData[i].d, "id")) = id

\* the row has a resolved floor that is a floor of the reference data
FloorInIndex(r) ==
    resolve_site(Validator, r).error = "" /\ Truthy(FloorOf(r)) /\ IsFloor(FloorOf(r))

\* FLOOR_SITE_MISMATCH and SPACE_FLOOR_MISMATCH are reported exactly for a
\* parent that differs
HierarchyReported(r, iss) ==
    /\ ("FLOOR_SITE_MISMATCH" \in Codes(iss)) <=> (ParentSite(FloorOf(r)) # SiteOf(r))
    /\ (Truthy(SpaceOf(r)) /\ IsSpace(SpaceOf(r)))
          => (("SPACE_FLOOR_MISMATCH" \in Codes(iss)) <=> (ParentFloor(SpaceOf(r)) # FloorOf(r)))

\* C12 as stated: for every row whose resolved floor is in the index,
\* FLOOR_SITE_MISMATCH is emitted if and only if the floor's parent site
\* differs from the resolved site, and with a resolved space that is in the
\* index SPACE_FLOOR_MISMATCH if and only if the space's parent floor
\* differs from the resolved floor.
C12_Original ==
    (called /\ FloorInIndex(row)) => HierarchyReported(row, issues)

\* C12 amended: the same for every row that passes the required-field gate.
C12_Hierarchy ==
    (called /\ PassesGate(row) /\ FloorInIndex(row)) => HierarchyReported(row, issues)

\* C12 witness: a floor named "Up" that belongs to the resolved site 1 is
\* not flagged, the space 5 of another floor is.
C12_Witness ==
    /\ called
    /\ PassesGate(row)
    /\ FloorInIndex(row)
    /\ ParentSite(FloorOf(row)) = SiteOf(row)
    /\ Truthy(SpaceOf(row)) /\ IsSpace(SpaceOf(row))
    /\ "FLOOR_SITE_MISMATCH" \notin Codes(issues)
    /\ "SPACE_FLOOR_MISMATCH" \in Codes(issues)

\* a floor of another site is flagged
C12_FloorFlagged ==
    /\ called
    /\ PassesGate(row)
    /\ FloorInIndex(row)
    /\ "FLOOR_SITE_MISMATCH" \in Codes(issues)

(***************************************************************************)
(* Recurrence validation (C13, C14, C15)                                   *)
(***************************************************************************)
RecurrenceCodes ==
    {"INVALID_RECURRENCE_TYPE", "MISSING_RECURRENCE_END", "INVALID_RECURRENCE_END",
     "INVALID_RECURRENCE_END_FORMAT", "INVALID_RECURRENCE_DAYS",
     "INVALID_RECURRENCE_INTERVAL", "INVALID_RECURRENCE_INTERVAL_FORMAT"}

\* the recurrence_type cell is empty (no column, an empty cell, blanks) or
\* holds "none"
TypeEmptyOrNone(r) ==
    Blank(r, "recurrence_type") \/ Lower(Strip(r["recurrence_type"])) = TextNone

\* recurrence_end_date is a date strictly later than date_start
EndLaterThanStart(r) ==
    /\ ParseDate(r["recurrence_end_date"]).ok /\ ParseDate(r["date_start"]).ok
    /\ ParseDate(r["recurrence_end_date"]).val > ParseDate(r["date_start"]).val

\* C13: for a row that reaches the recurrence validation: when
\* recurrence_type is neither empty nor "none", a missing or blank
\* recurrence_end_date is reported with ERROR MISSING_RECURRENCE_END and one
\* that is present but not strictly later than date_start with an ERROR
\* (INVALID_RECURRENCE_END for a date, INVALID_RECURRENCE_END_FORMAT for a
\* text that is no date); when recurrence_type is empty or "none", the row
\* gets no recurrence issue whatever the other recurrence columns hold.
C13_RecurrenceEnd ==
    (called /\ PassesGate(row)) =>
        /\ (~TypeEmptyOrNone(row) /\ Blank(row, "recurrence_end_date"))
              => "MISSING_RECURRENCE_END" \in Codes(issues)
        /\ (~TypeEmptyOrNone(row) /\ ~Blank(row, "recurrence_end_date")
                /\ ~EndLaterThanStart(row))
              => Codes(issues) \cap {"INVALID_RECURRENCE_END",
                                     "INVALID_RECURRENCE_END_FORMAT"} # {}
        /\ TypeEmptyOrNone(row) => Codes(issues) \cap RecurrenceCodes = {}

\* the claim's own reading of the type: the cell trimmed and lower-cased
TypeText(r) == Lower(Strip(r["recurrence_type"]))

\* the enum of the specification
SpecTypes ==
    { TextNone, <<"d", "a", "i", "l", "y">>, <<"w", "e", "e", "k", "l", "y">>,
      <<"b", "i", "w", "e", "e", "k", "l", "y">>, <<"m", "o", "n", "t", "h", "l", "y">> }

Weekdays == <<"w", "e", "e", "k", "d", "a", "y", "s">>

\* the row holds a recurrence_type text (not an empty cell, not blanks)
HasTypeText(r) == ~Blank(r, "recurrence_type")

\* C14 as stated: for a row that reaches the recurrence validation, a
\* recurrence_type outside {none, daily, weekly, biweekly, monthly} is
\* reported with ERROR INVALID_RECURRENCE_TYPE and one inside never is.
C14_Original ==
    (called /\ PassesGate(row) /\ HasTypeText(row)) =>
        (("INVALID_RECURRENCE_TYPE" \in Codes(issues)) <=> (TypeText(row) \notin SpecTypes))

\* C14: for a row that reaches the recurrence validation with a
\* recurrence_type text, INVALID_RECURRENCE_TYPE is reported if and only if
\* the type (trimmed, lower-cased) is outside {none, daily, weekdays, weekly,
\* biweekly, monthly}.
C14_RecurrenceType ==
    (called /\ PassesGate(row) /\ HasTypeText(row)) =>
        (("INVALID_RECURRENCE_TYPE" \in Codes(issues))
            <=> (TypeText(row) \notin SpecTypes \cup {Weekdays}))

C14_Witness ==
    /\ called /\ PassesGate(row) /\ HasTypeText(row)
    /\ TypeText(row) \notin SpecTypes \cup {Weekdays}
    /\ "INVALID_RECURRENCE_TYPE" \in Codes(issues)

C14_WeekdaysAccepted ==
    /\ called /\ PassesGate(row) /\ HasTypeText(row) /\ TypeText(row) = Weekdays
    /\ "INVALID_RECURRENCE_TYPE" \notin Codes(issues)

\* the tokens of a comma-separated list that, trimmed, lower-cased and cut
\* to three letters, are no day of the week, in that form and in list order
RECURSIVE TokensNotDays(_)
TokensNotDays(tokens) ==
    IF tokens = <<>> THEN <<>>
    ELSE (IF First3(Lower(Strip(Head(tokens)))) \in ValidDays THEN <<>>
          ELSE <<First3(Lower(Strip(Head(tokens))))>>) \o TokensNotDays(Tail(tokens))

WeeklyWithDays(r) ==
    /\ HasTypeText(r)
    /\ TypeText(r) \in {<<"w", "e", "e", "k", "l", "y">>, <<"b", "i", "w", "e", "e", "k", "l", "y">>}
    /\ ~Blank(r, "recurrence_days")

\* the lists of tokens named by the INVALID_RECURRENCE_DAYS issues
DaysReported(iss) ==
    {iss[i].args : i \in {j \in 1..Len(iss) : iss[j].issue_code = "INVALID_RECURRENCE_DAYS"}}

DaysReportedExactly(r, iss) ==
    IF TokensNotDays(Split(r["recurrence_days"], <<>>)) = <<>>
    THEN DaysReported(iss) = {}
    ELSE /\ DaysReported(iss) = {TokensNotDays(Split(r["recurrence_days"], <<>>))}
         /\ CountCode(iss, "INVALID_RECURRENCE_DAYS") = 1

C15_AllDaysValid ==
    /\ called /\ PassesGate(row) /\ WeeklyWithDays(row)
    /\ DaysReported(issues) = {}

(***************************************************************************)
(* build_job_payload (C16, C17, C18, C19)                                  *)
(***************************************************************************)
IsRecurringRow(r) == "is_recurring" \in DOMAIN r /\ r["is_recurring"] = PyTrue
IsOneOffRow(r) == "is_recurring" \in DOMAIN r /\ r["is_recurring"] = PyFalse

Has(p, k) == k \in DOMAIN p
Populated(p, k) == k \in DOMAIN p /\ p[k] \notin {NONE, NAN, EmptyText}

StopMode(r) == Get(r, "frequency_stop_repeat")

\* the row holds an end_after_date (NaN, the value of an empty cell of a
\* file, counts as one for the code)
HoldsEndDate(r) == Get(r, "end_after_date") \notin {NONE, EmptyText}

C16_AfterN ==
    /\ called /\ ~raised /\ IsRecurringRow(row) /\ StopMode(row) = <<"1">>
    /\ Populated(payload, "frequency_stop_repeat_number_value")
    /\ HoldsEndDate(row) /\ ~Has(payload, "end_after_date")

RecurrenceColumns ==
    {"repeat_interval_period", "repeat_interval_length", "use_day_of_week",
     "frequency_daily_repeat", "frequency_weekly_repeat", "frequency_monthly_repeat",
     "frequency_stop_repeat", "frequency_stop_repeat_number_value", "end_after_date"}

\* C17: for every row with is_recurring false, build_job_payload returns a
\* payload whose date_end equals date_start and whose frequency_stop_repeat
\* is None, and the payload is the one of the same row without its
\* recurrence columns.
C17_OneOff ==
    (called /\ IsOneOffRow(row)) =>
        /\ ~raised
        /\ payload["date_end"] = payload["date_start"]
        /\ payload["frequency_stop_repeat"] = NONE
        /\ payload = build_job_payload(Without(row, RecurrenceColumns)).payload

\* the one-off rows that hold an integer repeat_interval_length
C17_DateEndKept ==
    /\ called /\ IsOneOffRow(row) /\ ~raised
    /\ payload["date_end"] = D11 /\ payload["date_start"] = D10

C17_Raised ==
    /\ called /\ IsOneOffRow(row) /\ raised
    /\ ParseInt(row["hour_start"]).ok

\* a floor, a space is set for the row: resolved, or given in the id column
FloorIsSet(r) ==
    Truthy(resolve_floor(Validator, r, resolve_site(Validator, r).id).id) \/ ~Blank(r, "floor_id")
SpaceIsSet(r) ==
    \/ Truthy(resolve_space(Validator, r,
                            resolve_floor(Validator, r, resolve_site(Validator, r).id).id).id)
    \/ ~Blank(r, "space_id")

\* C18: floors_spaces is the empty array or an object with exactly one entry
\* {floor_id: [space_id]}, the object if and only if both a floor and a
\* space are set for the row.
C18_FloorsSpaces ==
    (called /\ ~raised) =>
        /\ payload["floors_spaces"].kind = "array" => payload["floors_spaces"].entries = <<>>
        /\ payload["floors_spaces"].kind = "object"
              => /\ Len(payload["floors_spaces"].entries) = 1
                 /\ Len(payload["floors_spaces"].entries[1].value) = 1
        /\ (payload["floors_spaces"].kind = "object") <=> (FloorIsSet(row) /\ SpaceIsSet(row))

C18_NanEntry ==
    /\ called /\ ~raised /\ ~FloorIsSet(row) /\ ~SpaceIsSet(row)
    /\ payload["floors_spaces"].kind = "object"
    /\ payload["floors_spaces"].entries[1].key = <<"n", "a", "n">>

\* neither the resolver nor the id column gives the site, the owner
SiteUnresolvable(r) == ~Truthy(resolve_site(Validator, r).id) /\ Blank(r, "site_id")
OwnerUnresolvable(r) ==
    ~Truthy(resolve_owner(Validator, r).id) /\ Blank(r, "owner_employee_id")

\* C19: when the site or the owner cannot be resolved, build_job_payload
\* raises and returns no payload; no payload returned has a blank locations
\* or an empty owners list.
C19_FailsUnresolved ==
    called =>
        /\ (SiteUnresolvable(row) \/ OwnerUnresolvable(row)) => raised
        /\ ~raised => (payload["locations"] # EmptyText /\ payload["owners"] # <<>>)

C19_BlankLocations ==
    /\ called /\ ~raised /\ SiteUnresolvable(row) /\ payload["locations"] = EmptyText

C19_NanLocations ==
    /\ called /\ ~raised /\ SiteUnresolvable(row)
    /\ payload["locations"] = <<"n", "a", "n">>

(***************************************************************************)
(* The two addressing modes (C20)                                          *)
(***************************************************************************)
\* the id cell holds the entity's id as an integer
IdCellIsInteger == id_row[IdColumn(record.kind)] = record.id

\* the key under which name_row's name is looked up
NameKey == Lower(Strip(name_row[NameColumn(record.kind)]))

\* the entity's name is in the name map of its kind, for a floor or a space
\* under the key scoped by its own parent
InScopedMap(v) ==
    CASE record.kind = "site" -> Truthy(Get(v.site_name_to_id, NameKey))
      [] record.kind = "floor" ->
            /\ record.parent # NONE
            /\ Truthy(Get(v.floor_name_to_id, ContextKey(PyStr(record.parent), NameKey)))
      [] record.kind = "space" ->
            /\ record.parent # NONE
            /\ Truthy(Get(v.space_name_to_id, ContextKey(PyStr(record.parent), NameKey)))
      [] OTHER -> Truthy(Get(v.user_name_to_id, NameKey))

NameResolvesScoped ==
    InScopedMap(JobValidator(reference.sites, reference.floors, reference.spaces,
                             reference.users))

\* C20: for every entity of the reference data whose name is in the name
\* map (for a floor or a space under the key scoped by its parent), the row
\* that addresses it by explicit id and the row that addresses it by name,
\* with the matching parent, resolve to the same id.
C20_SameId == (called /\ NameResolvesScoped) => by_id.id = by_name.id

\* the same for id cells read as integers only
C20_IntegerCells == (called /\ NameResolvesScoped /\ IdCellIsInteger) => by_id.id = by_name.id

\* an id cell read as a float resolves to its str()
C20_FloatCell ==
    /\ called /\ NameResolvesScoped /\ ~IdCellIsInteger
    /\ by_name.id = record.id /\ by_id.id = record.id \o <<".", "0">>

\* a floor whose parent is recorded as siteId is not in the scoped map, and
\* its name resolves to the floor of the same name of another site
C20_OtherFloor ==
    /\ called /\ record.kind = "floor" /\ IdCellIsInteger /\ ~NameResolvesScoped
    /\ by_id.id = record.id /\ Truthy(by_name.id) /\ by_name.id # record.id

C20_Same == called /\ IdCellIsInteger /\ NameResolvesScoped /\ by_id.id = by_name.id

(***************************************************************************)
(* validate_row called a second time on the row object a first call left:  *)
(* the row as it is, or after floor or space columns were changed.         *)
(***************************************************************************)
\* the set of the pass before, kept
SeenKeysKept(first_seen) == first_seen

\* seen_keys = set() before a validation pass; first_seen is the set the
\* pass before left
FreshSeenKeys(first_seen) == {}

\* the "_resolved_*" entries validate_row stores on the row
Annotations ==
    {"_resolved_site_id", "_resolved_owner_id", "_resolved_floor_id", "_resolved_space_id"}

\* the row with its input columns only
InputColumns(r) == [k \in DOMAIN r \ Annotations |-> r[k]]

Unresolvable == <<"z", "z">>

\* the changes of floor and space columns: cleared (the form writes "") or
\* set to a name of no floor or space
Edits ==
    { [cols |-> {"floor_name"}, value |-> EmptyText],
      [cols |-> {"floor_id", "floor_name"}, value |-> EmptyText],
      [cols |-> {"space_name"}, value |-> EmptyText],
      [cols |-> {"space_id", "space_name"}, value |-> EmptyText],
      [cols |-> {"floor_id", "floor_name"}, value |-> Unresolvable],
      [cols |-> {"space_id", "space_name"}, value |-> Unresolvable] }

\* row[col] = value for the columns of the edit; everything else on the row,
\* the stored "_resolved_*" included, stays
ApplyEdit(r, e) == [k \in DOMAIN r |-> IF k \in e.cols THEN e.value ELSE r[k]]

InitRevalidate ==
    /\ row \in Rows
    /\ row_num \in RowNums
    /\ today \in Todays
    /\ seen_in = FreshSeenKeys({})
    /\ called = FALSE
    /\ issues = <<>>
    /\ row_out = row
    /\ seen_out = seen_in
    /\ payload = EmptyDict
    /\ raised = FALSE
    /\ ResolveIdle
    /\ MoreIdle
    /\ AuditIdle
    /\ ready_df = <<>>
    /\ ImportIdle

\* the second call on the unchanged row
Revalidate ==
    /\ called
    /\ again = "no"
    /\ again' = "same"
    /\ edited' = row_out
    /\ issues_again' = validate_row(Validator, row_out, row_num, FreshSeenKeys(seen_out),
                                    today).issues
    /\ UNCHANGED <<row, row_num, seen_in, called, issues, row_out, seen_out, payload, raised,
                   resolve_vars, build_vars, owner, preview_vars, users_vars, today,
                   audit_vars, ready_df, import_vars>>

\* the second call after a change of floor or space columns
EditAndRevalidate ==
    /\ called
    /\ again = "no"
    /\ \E e \in Edits :
          /\ edited' = ApplyEdit(row_out, e)
          /\ issues_again' = validate_row(Validator, ApplyEdit(row_out, e), row_num,
                                          FreshSeenKeys(seen_out), today).issues
    /\ again' = "edited"
    /\ UNCHANGED <<row, row_num, seen_in, called, issues, row_out, seen_out, payload, raised,
                   resolve_vars, build_vars, owner, preview_vars, users_vars, today,
                   audit_vars, ready_df, import_vars>>

NextRevalidate == ValidateCall \/ Revalidate \/ EditAndRevalidate

SpecRevalidate == InitRevalidate /\ [][NextRevalidate]_vars

\* C21: a second run of validate_row on the unchanged row, with a fresh
\* seen_keys, the same row number and the same date, returns the issue list
\* the first run returned; what the first run stored on the row changes
\* nothing.
C21_SecondRunSame == (again = "same") => issues_again = issues

\* a row on which the first run stored resolved ids and reported a
\* referential error has been run twice
C21_RanTwice ==
    /\ again = "same"
    /\ "_resolved_floor_id" \in DOMAIN edited
    /\ "_resolved_floor_id" \notin DOMAIN row
    /\ HasCode(issues, {"FLOOR_SITE_MISMATCH"})

MaxEntries == 2

NoneEntry == [kind |-> "None", d |-> EmptyDict]

\* an argument: None, or a list of entries
NoList == [none |-> TRUE, items |-> <<>>]
List(items) == [none |-> FALSE, items |-> items]

\* sites = sites or []
ListOrEmpty(a) == IF a.none THEN <<>> ELSE a.items

\* the filter without isinstance(e, dict): e.get of None or of a string
\* raises AttributeError
EntryTestWithoutIsinstance(e) ==
    IF e.kind # "dict" THEN "AttributeError"
    ELSE IF Get(e.d, "id") # NONE THEN "keep" ELSE "skip"

\* isinstance(e, dict) and e.get("id") is not None, on one entry
EntryTest(e) ==
    IF e.kind # "dict" THEN "skip"
    ELSE IF Get(e.d, "id") # NONE THEN "keep" ELSE "skip"

\* the construction raises when the test of an entry does
ConstructionRaises(a) ==
    \E l \in {"sites", "floors", "spaces", "users"} :
        \E i \in 1..Len(ListOrEmpty(a[l])) : EntryTest(ListOrEmpty(a[l])[i]) = "AttributeError"

SiteEntries ==
    { Dict([id |-> <<"1">>, name |-> <<"H", "Q">>]),
      Dict([id |-> <<"2">>, title |-> <<"L", "a", "b">>]),
      Dict([name |-> <<"N", "o", "I", "d">>]),
      NoneEntry }

FloorEntries ==
    { Dict([id |-> <<"1", "0">>, name |-> <<"G">>, site_id |-> <<"1">>]),
      Dict([id |-> <<"2", "0">>, name |-> <<"G">>, siteId |-> <<"2">>]),
      Dict([name |-> <<"A", "t", "t", "i", "c">>, site_id |-> <<"1">>]),
      NotADict }

SpaceLists ==
    { NoList,
      List(SpacesData \o << Dict([name |-> <<"S", "h", "e", "d">>, floor_id |-> <<"1", "0">>]),
                            NoneEntry >>) }

UserLists ==
    { NoList,
      List(UsersData \o << Dict([user_name |-> <<"e", "v", "e">>, email |-> <<"e", "@", "x">>]),
                           NotADict >>) }

ListsOf(entries) == {NoList, List(<<>>)} \cup {List(l) : l \in SeqsUpTo(entries, MaxEntries)}

InitConstruct ==
    /\ arguments \in [sites : ListsOf(SiteEntries), floors : ListsOf(FloorEntries),
                      spaces : SpaceLists, users : UserLists]
    /\ built = EmptyDict
    /\ build_raised = FALSE
    /\ called = FALSE
    /\ row = BaseRow
    /\ row_num = 0
    /\ seen_in = {}
    /\ issues = <<>>
    /\ row_out = BaseRow
    /\ seen_out = {}
    /\ payload = EmptyDict
    /\ raised = FALSE
    /\ ResolveIdle
    /\ AgainIdle
    /\ OwnerIdle
    /\ PreviewIdle
    /\ UsersIdle
    /\ today \in Todays
    /\ AuditIdle
    /\ ready_df = <<>>
    /\ ImportIdle

\* validator = JobValidator(sites, floors, spaces, users)
Construct ==
    /\ ~called
    /\ build_raised' = ConstructionRaises(arguments)
    /\ built' = IF ConstructionRaises(arguments) THEN EmptyDict
                ELSE JobValidator(ListOrEmpty(arguments.sites), ListOrEmpty(arguments.floors),
                                  ListOrEmpty(arguments.spaces), ListOrEmpty(arguments.users))
    /\ called' = TRUE
    /\ UNCHANGED <<row, row_num, seen_in, issues, row_out, seen_out, payload, raised,
                   resolve_vars, again_vars, arguments, owner, preview_vars, users_vars,
                   today, audit_vars, ready_df, import_vars>>

NextConstruct == Construct

SpecConstruct == InitConstruct /\ [][NextConstruct]_vars

\* the entries of an argument, and those of them that are records with an id
EntriesOf(a) == {ListOrEmpty(a)[i] : i \in 1..Len(ListOrEmpty(a))}
WellFormed(a) == {e \in EntriesOf(a) : e.kind = "dict" /\ "id" \in DOMAIN e.d}
IdsOf(a) == {PyStr(e.d["id"]) : e \in WellFormed(a)}

\* the names under which a map may hold the well-formed entries of a list:
\* the lower-cased text of a name or e-mail field, alone or after "parent|"
NameFields == {"name", "site_name", "floor_name", "space_name", "title", "user_name",
               "username", "email"}
ParentFields == {"site_id", "siteId", "location_id", "floor_id", "floorId"}
NamesOf(a) ==
    {Lower(Strip(PyStr(e.d[f]))) : <<e, f>> \in {p \in WellFormed(a) \X NameFields :
                                                    p[2] \in DOMAIN p[1].d}}
ScopedNamesOf(a) ==
    NamesOf(a)
    \cup {ContextKey(EmptyText, n) : n \in NamesOf(a)}
    \cup {ContextKey(PyStr(e.d[f]), n) :
            <<e, f, n>> \in {p \in WellFormed(a) \X ParentFields \X NamesOf(a) :
                                p[2] \in DOMAIN p[1].d}}

\* every key and every value of the maps built from a list comes from a
\* well-formed entry of the list
OnlyWellFormed(a, by_id_map, name_map) ==
    /\ DOMAIN by_id_map = IdsOf(a)
    /\ DOMAIN name_map \subseteq ScopedNamesOf(a)
    /\ \A k \in DOMAIN name_map : name_map[k] \in IdsOf(a)

\* C22: the construction of a JobValidator completes for any lists (None
\* lists, None or non-mapping entries, records without id); the id maps
\* hold exactly the well-formed records, under str(id), and no key or value
\* of a name map or parent map comes from a malformed entry.
C22_ConstructionTolerant ==
    called =>
        /\ ~build_raised
        /\ OnlyWellFormed(arguments.sites, built.sites, built.site_name_to_id)
        /\ OnlyWellFormed(arguments.floors, built.floors, built.floor_name_to_id)
        /\ OnlyWellFormed(arguments.spaces, built.spaces, built.space_name_to_id)
        /\ OnlyWellFormed(arguments.users, built.users, built.user_name_to_id)
        /\ DOMAIN built.floor_to_site \subseteq IdsOf(arguments.floors)
        /\ DOMAIN built.space_to_floor \subseteq IdsOf(arguments.spaces)

\* a validator built from a None list, a list with a None entry and a
\* record without id next to a well-formed site, and a list with a
\* non-mapping entry
C22_Malformed ==
    /\ called
    /\ arguments.spaces.none
    /\ NoneEntry \in EntriesOf(arguments.sites)
    /\ Dict([name |-> <<"N", "o", "I", "d">>]) \in EntriesOf(arguments.sites)
    /\ NotADict \in EntriesOf(arguments.floors)
    /\ ~arguments.users.none
    /\ DOMAIN built.users = {<<"8">>, <<"9">>}

(***************************************************************************)
(* The order of the issues of one validate_row call                        *)
(***************************************************************************)
\* the details of the referential checks that share a code with a
\* resolution error
ResolvedNotFound == {"Resolved floor_id not found", "Resolved space_id not found"}

\* the check an issue comes from, numbered in the order of the checks:
\* resolution of site, owner, floor, space (1-4), required fields (5), dates
\* (6), times (7), referential checks of site, floor, space, owner (8-11),
\* duplicate warning (12), recurrence (13), the VALID mark (14)
CheckOf(i) ==
    CASE i.issue_code = "MISSING_SITE" -> 1
      [] i.issue_code = "MISSING_OWNER" -> 2
      [] i.issue_code = "INVALID_FLOOR" /\ i.issue_detail \notin ResolvedNotFound -> 3
      [] i.issue_code = "INVALID_SPACE" /\ i.issue_detail \notin ResolvedNotFound -> 4
      [] i.issue_code = "MISSING_REQUIRED" -> 5
      [] i.issue_code \in {"PAST_DATE", "INVALID_DATE_RANGE", "INVALID_DATE"} -> 6
      [] i.issue_code \in {"INVALID_HOUR", "INVALID_MINUTE", "INVALID_TIME_RANGE",
                           "INVALID_TIME"} -> 7
      [] i.issue_code = "INVALID_SITE" -> 8
      [] i.issue_code \in {"INVALID_FLOOR", "FLOOR_SITE_MISMATCH"} -> 9
      [] i.issue_code \in {"SPACE_WITHOUT_FLOOR", "INVALID_SPACE", "SPACE_FLOOR_MISMATCH"} -> 10
      [] i.issue_code = "INVALID_OWNER" -> 11
      [] i.issue_code = "DUPLICATE_ROW" -> 12
      [] i.issue_code \in RecurrenceCodes -> 13
      [] OTHER -> 14

\* C23: the issues of a row appear in the order of the checks: site, owner,
\* floor and space resolution, required fields, dates, times, referential
\* checks (site, floor, space, owner), duplicate warning, recurrence; no
\* issue of a later check stands before one of an earlier check.
C23_CheckOrder ==
    called => \A i, j \in 1..Len(issues) : i < j => CheckOf(issues[i]) <= CheckOf(issues[j])

\* a list with an issue of the resolution, one of the referential checks
\* and the duplicate warning
C23_ThreeChecks ==
    /\ called
    /\ \E i, j, k \in 1..Len(issues) :
          /\ i < j /\ j < k
          /\ CheckOf(issues[i]) \in 1..4
          /\ CheckOf(issues[j]) \in 8..11
          /\ CheckOf(issues[k]) = 12

(***************************************************************************)
(* The import loop, row by row                                             *)
(***************************************************************************)
\* the rows recorded so far in the run
Recorded == Len(results) + Len(failures)

\* one step of an import run keeps the rows apart
OneRowAtATime ==
    \* the loop moves by one row, after the validation failure or the
    \* outcome of that row was recorded; a new run starts at the first row
    /\ idx' # idx =>
          \/ idx' = 0 /\ imp_pc \in {"idle", "done", "aborted"} /\ imp_pc' = "loop"
          \/ /\ idx' = idx + 1
             /\ imp_pc \in {"row", "record"}
             /\ imp_pc' = "loop"
             /\ Len(results') + Len(failures') = Recorded + 1
    \* a submission goes on with a retry or ends in the recording
    /\ imp_pc = "submit" => imp_pc' \in {"submit", "record"} /\ idx' = idx
    /\ imp_pc = "record" => imp_pc' = "loop" /\ idx' = idx + 1
    \* a row is submitted once: create_job_with_retry starts with no call made
    /\ (imp_pc' = "submit" /\ imp_pc # "submit") => imp_pc = "row" /\ calls' = <<>>
    \* the abort is decided at the head of the loop only
    /\ imp_pc' = "aborted" => imp_pc = "loop"
    \* every row before the current one was recorded exactly once
    /\ imp_pc' # "idle" => Len(results') + Len(failures') = idx'

\* C24: the import handles the ready rows one at a time and in order: the
\* submission of a row, retries included, ends and is recorded before the
\* next row starts; no row is submitted twice in a run; the failure-rate
\* abort is taken between rows only.
C24_RowByRow == [][OneRowAtATime]_vars

\* a run aborted before its last row, after a row that was retried up to
\* the limit and recorded as a failure
C24_AbortedAfterRetries ==
    /\ imp_pc = "aborted"
    /\ idx < Len(ready_df)
    /\ Len(calls) = MAX_RETRIES
    /\ Len(results) = 1
    /\ Len(failures) = 1

(***************************************************************************)
(* An import after the edit form changed audited rows: the rows offered    *)
(* for import are taken from the edited file and the issues of the audit.  *)
(***************************************************************************)
MaxEditedRows == 3

\* a row of a file without the columns site_id and owner_employee_id, its
\* site and owner as the select boxes of the form offer them
FormRow ==
    [c \in DOMAIN BaseRow \ {"site_id", "owner_employee_id"} |->
        IF c = "site_name" THEN <<"H", "Q">>
        ELSE IF c = "owner_email" THEN <<"b", "@", "x">>
        ELSE BaseRow[c]]

InitImportEdited ==
    /\ CallIdle
    /\ today \in Todays
    /\ csv_data \in SeqsUpTo({FormRow}, MaxEditedRows)
    /\ responses = CoarseResponses
    /\ audit_pc = "loop"
    /\ ran = {}
    /\ enum_idx = 0
    /\ all_issues = <<>>
    /\ seen_keys = {}
    /\ audit_issues = <<>>
    /\ ready_positions = <<>>
    /\ ready_df = <<>>
    /\ export_positions = <<>>
    /\ validated_ready = <<>>
    /\ imp_pc = "idle"
    /\ idx = 0
    /\ results = <<>>
    /\ failures = <<>>
    /\ failure_count = 0
    /\ attempt = 0
    /\ calls = <<>>
    /\ returned = NoReturn

\* the edit form after the audit: "Select Site..." or "Select Owner..." is
\* chosen for a row, edited_df.at[idx, column] = ""
FormEdit ==
    /\ audit_pc = "audited"
    /\ "select" \notin ran
    /\ \E i \in 1..Len(csv_data), column \in {"site_name", "owner_email"} :
          /\ csv_data[i][column] # EmptyText
          /\ csv_data' = [csv_data EXCEPT ![i][column] = EmptyText]
    /\ UNCHANGED <<call_vars, import_vars, today, audit_pc, ran, enum_idx, all_issues,
                   seen_keys, audit_issues, ready_positions, ready_df, export_positions,
                   validated_ready>>

NextImportEdited == NextImport \/ FormEdit

SpecImportEdited == InitImportEdited /\ [][NextImportEdited]_vars

\* the payload of a row has blank locations or no owner
BlankPayload(r) == ~Truthy(PayloadLocations(r)) \/ PayloadOwners(r) = <<>>

\* the record of a validation failure of the row at the loop position
ValidationFailure(r) ==
    /\ Len(failures') = Len(failures) + 1
    /\ failures'[Len(failures')].status = "failed"
    /\ failures'[Len(failures')].csv_row = r["_original_csv_row"]
    /\ failures'[Len(failures')].error = PayloadValidationErrors(r)
    /\ failures'[Len(failures')].error # <<>>
    /\ \A k \in 1..Len(failures) : failures'[k] = failures[k]

NoBlankPayloadSent ==
    \* create_job is called for rows with a site and an owner in the payload only
    /\ calls' # calls /\ calls' # <<>> =>
          imp_pc = "submit" /\ ~BlankPayload(ready_df[idx + 1])
    /\ imp_pc' = "submit" => ~BlankPayload(ready_df[idx' + 1])
    \* a row with a blank payload is recorded as a validation failure and
    \* the loop goes on
    /\ (imp_pc = "row" /\ BlankPayload(ready_df[idx + 1])) =>
          /\ ValidationFailure(ready_df[idx + 1])
          /\ calls' = calls
          /\ results' = results
          /\ idx' = idx + 1
          /\ imp_pc' = "loop"

\* C30: the import loop sends no payload with blank locations or without
\* owners to the job-creation endpoint: for such a row no create_job call
\* is made, the row is recorded in failures with the validation errors, and
\* the loop goes on with the next row.
C30_NoBlankPayload == [][NoBlankPayloadSent]_vars

\* a run in which the first row, its site cleared after the audit, was
\* recorded as a validation failure without a call, and the second row is
\* being submitted
C30_SkippedAndContinued ==
    /\ imp_pc = "submit"
    /\ idx = 1
    /\ ~Truthy(PayloadLocations(ready_df[1]))
    /\ Len(failures) = 1
    /\ failures[1].error[1] = "Missing site ID (locations)"
    /\ calls = <<>>

(***************************************************************************)
(* Names of floors and spaces, resolved under their parent                 *)
(***************************************************************************)
\* C25: a floor addressed by name under its resolved site, and a space
\* addressed by name under its resolved floor, resolves to the entry of
\* that name whose parent is that site or floor, whichever key the entry
\* records its parent under and whatever other entries carry the same name.
C25_NameUnderParent ==
    (called /\ record.kind \in {"floor", "space"} /\ record.parent # NONE)
        => by_name.id = record.id

(***************************************************************************)
(* resolve_owner on rows that address the owner by id, name and e-mail     *)
(***************************************************************************)
OwnerIdCells == {NAN, <<" ">>, <<"8">>, <<" ", "4", " ">>}
OwnerNameCells == {NAN, <<" ">>, <<" ", "B", "o", "b", " ">>, <<"z", "e", "d">>}
OwnerEmailCells == {NAN, <<"A", "@", "X", " ">>, <<"b", "@", "x">>, <<"q", "@", "x">>}

InitOwner ==
    /\ row \in { [NoAddress EXCEPT !.owner_employee_id = a, !.owner_name = b,
                                   !.owner_email = c] :
                   a \in OwnerIdCells, b \in OwnerNameCells, c \in OwnerEmailCells }
    /\ row_num = 0
    /\ seen_in = {}
    /\ called = FALSE
    /\ issues = <<>>
    /\ row_out = row
    /\ seen_out = {}
    /\ payload = EmptyDict
    /\ raised = FALSE
    /\ ResolveIdle
    /\ MoreIdle
    /\ today \in Todays
    /\ AuditIdle
    /\ ready_df = <<>>
    /\ ImportIdle

\* owner_id, owner_error = validator.resolve_owner(row)
ResolveOwner ==
    /\ ~called
    /\ owner' = resolve_owner(Validator, row)
    /\ called' = TRUE
    /\ UNCHANGED <<row, row_num, seen_in, issues, row_out, seen_out, payload, raised,
                   resolve_vars, again_vars, build_vars, preview_vars, users_vars, today,
                   audit_vars, ready_df, import_vars>>

NextOwner == ResolveOwner

SpecOwner == InitOwner /\ [][NextOwner]_vars

\* the ids of the users of the reference data whose user name or e-mail
\* address is the text, case and surrounding blanks apart
UserIdsOf(text) ==
    { PyStr(u.d["id"]) : u \in { e \in WithId(UsersData) :
        \/ Lower(Strip(PyStr(Or3(Get(e.d, "user_name"), Get(e.d, "username"),
                                 Get(e.d, "name"))))) = Lower(Strip(text))
        \/ Lower(Strip(PyStr(Get(e.d, "email")))) = Lower(Strip(text)) } }

\* the cell holds a text that names a user
Names(cell) == Given(cell) /\ UserIdsOf(cell) # {}

\* owner_name, then owner_email: the first that names a user gives the id;
\* the error is returned when neither does
ByNameThenEmail ==
    IF Names(row.owner_name)
    THEN owner.error = "" /\ owner.id \in UserIdsOf(row.owner_name)
    ELSE IF Names(row.owner_email)
    THEN owner.error = "" /\ owner.id \in UserIdsOf(row.owner_email)
    ELSE owner.id = NONE /\ owner.error # ""

\* C26 as stated: a non-blank owner_employee_id is returned verbatim,
\* without lookup; otherwise owner_name, then owner_email.
C26_Original ==
    called =>
        IF Given(row.owner_employee_id)
        THEN owner = Resolved(PyStr(row.owner_employee_id))
        ELSE ByNameThenEmail

\* C26: a non-blank owner_employee_id is returned as str(value).strip(),
\* without lookup; otherwise an owner_name that names a user gives that
\* user's id, whatever owner_email holds; an owner_name that names nobody
\* falls through to owner_email; the error is returned only when id, name
\* and e-mail all fail.  Names and addresses are compared without case and
\* surrounding blanks.
C26_IdNameEmail ==
    called =>
        IF Given(row.owner_employee_id)
        THEN owner = Resolved(Strip(PyStr(row.owner_employee_id)))
        ELSE ByNameThenEmail

\* a padded id of no user is returned stripped, although name and e-mail
\* name users
C26_Witness ==
    /\ called
    /\ row.owner_employee_id = <<" ", "4", " ">>
    /\ Names(row.owner_name)
    /\ Names(row.owner_email)
    /\ owner.id = <<"4">>

\* the name wins over an e-mail address of another user
C26_NameWins ==
    /\ called
    /\ ~Given(row.owner_employee_id)
    /\ UserIdsOf(row.owner_name) = {<<"8">>}
    /\ UserIdsOf(row.owner_email) = {<<"9">>}
    /\ owner.id = <<"8">>

(***************************************************************************)
(* FacilityAppsClient.get_users: the pages of /api/v1/user                 *)
(***************************************************************************)
MaxPages == 3

\* what a request of a page gives: an exception (the request, the status
\* or the JSON body fails), or a body with "data" and, in
\* meta.pagination, total_pages or nothing
RequestFails == [kind |-> "exception", data |-> <<>>, has_total |-> FALSE, total_pages |-> 0]
PageAnswer(data, has_total, total_pages) ==
    [kind |-> "answer", data |-> data, has_total |-> has_total, total_pages |-> total_pages]

PageData == {<<>>, <<"u">>, <<"v", "w">>}

PageResponses ==
    {RequestFails}
    \cup {PageAnswer(d, FALSE, 0) : d \in PageData}
    \cup {PageAnswer(d, TRUE, t) : d \in PageData, t \in 1..MaxPages}

\* pagination.get("total_pages", 1)
TotalPages(response) == IF response.has_total THEN response.total_pages ELSE 1

\* the loop left only when the page number is above total_pages
LastPagePassed(p, response) == p > TotalPages(response)

\* if page >= total_pages: break
LastPage(p, response) == p >= TotalPages(response)

InitUsers ==
    /\ CallIdle
    /\ today \in Todays
    /\ AuditIdle
    /\ ready_df = <<>>
    /\ ImportIdle

\* all_users = []; page = 1
GetUsers ==
    /\ users_pc = "idle"
    /\ users_pc' = "loop"
    /\ page' = 1
    /\ requested' = <<>>
    /\ fetched' = <<>>
    /\ all_users' = <<>>
    /\ users_returned' = <<>>
    /\ UNCHANGED <<row, row_num, seen_in, called, issues, row_out, seen_out, payload, raised,
                   resolve_vars, again_vars, build_vars, owner, preview_vars, today,
                   audit_vars, ready_df, import_vars>>

\* one pass of "while True": the request of the page, and either the
\* exception handler (return []), the break (return all_users) or page += 1
FetchPage ==
    /\ users_pc = "loop"
    /\ requested' = Append(requested, page)
    /\ \E response \in PageResponses :
          IF response.kind = "exception"
          THEN /\ users_returned' = <<>>
               /\ users_pc' = "returned"
               /\ UNCHANGED <<fetched, all_users, page>>
          ELSE /\ fetched' = Append(fetched, response)
               /\ all_users' = all_users \o response.data
               /\ IF LastPage(page, response)
                  THEN /\ users_returned' = all_users \o response.data
                       /\ users_pc' = "returned"
                       /\ page' = page
                  ELSE /\ page' = page + 1
                       /\ users_pc' = "loop"
                       /\ users_returned' = users_returned
    /\ UNCHANGED <<row, row_num, seen_in, called, issues, row_out, seen_out, payload, raised,
                   resolve_vars, again_vars, build_vars, owner, preview_vars, today,
                   audit_vars, ready_df, import_vars>>

NextUsers == GetUsers \/ FetchPage

\* the loop runs on to its return
SpecUsers == InitUsers /\ [][NextUsers]_vars /\ WF_vars(FetchPage)

\* total_pages as the claim counts it: 1 when missing
ClaimTotal(response) == IF response.has_total THEN response.total_pages ELSE 1

\* the "data" lists of the pages, one after the other
RECURSIVE Concatenated(_)
Concatenated(answers) ==
    IF answers = <<>> THEN <<>> ELSE Head(answers).data \o Concatenated(Tail(answers))

\* a request was made that got no answer
SomeRequestFailed == Len(requested) > Len(fetched)

UsersPagedInOrder ==
    \* pages 1, 2, 3, ... in this order, each once
    /\ \A k \in 1..Len(requested) : requested[k] = k
    /\ users_pc = "loop" => page = Len(requested) + 1 /\ ~SomeRequestFailed
    \* no page before the last answered one had reached its total_pages
    /\ \A k \in 1..(Len(fetched) - 1) : k < ClaimTotal(fetched[k])
    /\ (users_pc = "loop" /\ fetched # <<>>) =>
          Len(fetched) < ClaimTotal(fetched[Len(fetched)])
    \* the return: [] after a failed request, else all pages in order, the
    \* last of them the first that reached its total_pages
    /\ (users_pc = "returned" /\ SomeRequestFailed) => users_returned = <<>>
    /\ (users_pc = "returned" /\ ~SomeRequestFailed) =>
          /\ fetched # <<>>
          /\ Len(fetched) >= ClaimTotal(fetched[Len(fetched)])
          /\ users_returned = Concatenated(fetched)

\* C27: get_users requests the pages 1, 2, 3, ... in order, each at most
\* once, and stops after the first page whose number has reached the
\* total_pages of that page's metadata (1 when missing), so that it returns
\* for every finite total_pages; it returns the pages' data concatenated in
\* order, or the empty list when a request failed.
C27_Pagination == [](UsersPagedInOrder) /\ ((users_pc = "loop") ~> (users_pc = "returned"))

\* three pages were fetched and returned in order
C27_ThreePages ==
    /\ users_pc = "returned"
    /\ requested = <<1, 2, 3>>
    /\ Len(fetched) = 3
    /\ users_returned = <<"u", "v", "w", "u">>

(***************************************************************************)
(* build_recurrence_preview: the text shown for the recurrence settings.   *)
(* The result is given with the two parts it is put together from.         *)
(***************************************************************************)
DayNames == <<"Mon", "Tue", "Wed", "Thu", "Fri", "Sat", "Sun">>

\* ", ".join(day_names[d-1] for d in days if 1 <= d <= 7)
RECURSIVE JoinDays(_)
JoinDays(days) ==
    IF days = <<>> THEN ""
    ELSE IF ~(1 <= Head(days) /\ Head(days) <= 7) THEN JoinDays(Tail(days))
    ELSE IF JoinDays(Tail(days)) = "" THEN DayNames[Head(days)]
    ELSE DayNames[Head(days)] \o ", " \o JoinDays(Tail(days))

\* f"every {interval} {unit}{'s' if interval > 1 else ''}"
Every(interval, unit) ==
    "every " \o ToString(interval) \o " " \o unit \o (IF interval > 1 THEN "s" ELSE "")

\* every selection of days taken for a weekly pattern
WeeklyPatternAlways(days) == TRUE

\* if len(days) < 7: "Not all days selected, so it's a weekly pattern"
WeeklyPattern(days) == Len(days) < 7

\* freq_desc
FreqDesc(s) ==
    IF s.repeat_interval_period = "daily"
    THEN IF s.frequency_daily_repeat = <<>>
         THEN Every(s.repeat_interval_length, "day")
         ELSE IF WeeklyPattern(s.frequency_daily_repeat)
         THEN IF s.repeat_interval_length = 1
              THEN "weekly on " \o JoinDays(s.frequency_daily_repeat)
              ELSE "every " \o ToString(s.repeat_interval_length) \o " weeks on "
                   \o JoinDays(s.frequency_daily_repeat)
         ELSE Every(s.repeat_interval_length, "day") \o " on "
              \o JoinDays(s.frequency_daily_repeat)
    ELSE IF s.repeat_interval_period = "monthly"
    THEN IF s.use_day_of_week
         THEN Every(s.repeat_interval_length, "month") \o " on "
              \o JoinDays(s.frequency_daily_repeat)
         ELSE Every(s.repeat_interval_length, "month") \o " on the same date"
    ELSE Every(s.repeat_interval_length, "year")

\* end_desc; end_after_date "" stands for no date (None, or no such key)
EndDesc(s) ==
    IF s.frequency_stop_repeat = 1
    THEN ", ending after " \o ToString(s.frequency_stop_repeat_number_value) \o " times"
    ELSE IF s.frequency_stop_repeat = 2 /\ s.end_after_date # ""
    THEN ", ending on " \o s.end_after_date
    ELSE ""

build_recurrence_preview(s) ==
    IF ~s.is_recurring
    THEN [text |-> "One-time job", freq_desc |-> "", end_desc |-> ""]
    ELSE [text |-> "Repeats " \o FreqDesc(s) \o EndDesc(s),
          freq_desc |-> FreqDesc(s), end_desc |-> EndDesc(s)]

\* the settings build_recurrence_ui may hand over
DaySelections == { <<>>, <<1>>, <<1, 3, 5>>, <<1, 2, 3, 4, 5, 6>>, <<1, 2, 3, 4, 5, 6, 7>> }

SettingsSet ==
    [ is_recurring : BOOLEAN,
      repeat_interval_period : {"daily", "monthly", "yearly"},
      repeat_interval_length : {1, 2, 3},
      frequency_daily_repeat : DaySelections,
      use_day_of_week : BOOLEAN,
      frequency_stop_repeat : {0, 1, 2},
      frequency_stop_repeat_number_value : {10},
      end_after_date : {"", "2025-12-31"} ]

InitPreview ==
    /\ settings \in SettingsSet
    /\ preview = ""
    /\ called = FALSE
    /\ row = BaseRow
    /\ row_num = 0
    /\ seen_in = {}
    /\ issues = <<>>
    /\ row_out = BaseRow
    /\ seen_out = {}
    /\ payload = EmptyDict
    /\ raised = FALSE
    /\ ResolveIdle
    /\ AgainIdle
    /\ BuildIdle
    /\ OwnerIdle
    /\ UsersIdle
    /\ today \in Todays
    /\ AuditIdle
    /\ ready_df = <<>>
    /\ ImportIdle

\* preview = build_recurrence_preview(recurrence_settings)
BuildPreview ==
    /\ ~called
    /\ preview' = build_recurrence_preview(settings)
    /\ called' = TRUE
    /\ UNCHANGED <<row, row_num, seen_in, issues, row_out, seen_out, payload, raised,
                   resolve_vars, again_vars, build_vars, owner, settings, users_vars, today,
                   audit_vars, ready_df, import_vars>>

NextPreview == BuildPreview

SpecPreview == InitPreview /\ [][NextPreview]_vars

\* the days of the settings, as the preview names them
DaysText == JoinDays(settings.frequency_daily_repeat)
NText == ToString(settings.repeat_interval_length)
EveryNDays == "every " \o NText \o (IF settings.repeat_interval_length > 1 THEN " days" ELSE " day")

\* some but not all days are selected
SomeDays == settings.frequency_daily_repeat # <<>> /\ Len(settings.frequency_daily_repeat) < 7

\* the end clause: "ending after N times" exactly for stop mode 1, "ending
\* on {date}" exactly for stop mode 2 with a date, nothing otherwise
EndClauseAsClaimed ==
    preview.end_desc =
        (IF settings.frequency_stop_repeat = 1
         THEN ", ending after " \o ToString(settings.frequency_stop_repeat_number_value) \o " times"
         ELSE IF settings.frequency_stop_repeat = 2 /\ settings.end_after_date # ""
         THEN ", ending on " \o settings.end_after_date
         ELSE "")

\* C29 as stated: "One-time job" for a non-recurring specification; for a
\* recurring one with period daily, "weekly on {days}" or "every N weeks on
\* {days}" for some but not all days, "every N day(s)" for no day or all
\* seven; the end clause by the stop mode.
C29_Original ==
    called =>
        /\ ~settings.is_recurring => preview.text = "One-time job"
        /\ settings.is_recurring =>
              /\ preview.text = "Repeats " \o preview.freq_desc \o preview.end_desc
              /\ EndClauseAsClaimed
              /\ settings.repeat_interval_period = "daily" =>
                    preview.freq_desc =
                        (IF SomeDays
                         THEN IF settings.repeat_interval_length = 1
                              THEN "weekly on " \o DaysText
                              ELSE "every " \o NText \o " weeks on " \o DaysText
                         ELSE EveryNDays)

\* C29: as stated, but with all seven days selected the daily wording is
\* followed by the days: "every N day(s) on Mon, Tue, Wed, Thu, Fri, Sat,
\* Sun"; only the empty selection gives "every N day(s)" alone.
C29_Preview ==
    called =>
        /\ ~settings.is_recurring => preview.text = "One-time job"
        /\ settings.is_recurring =>
              /\ preview.text = "Repeats " \o preview.freq_desc \o preview.end_desc
              /\ EndClauseAsClaimed
              /\ settings.repeat_interval_period = "daily" =>
                    preview.freq_desc =
                        (IF SomeDays
                         THEN IF settings.repeat_interval_length = 1
                              THEN "weekly on " \o DaysText
                              ELSE "every " \o NText \o " weeks on " \o DaysText
                         ELSE IF settings.frequency_daily_repeat = <<>>
                         THEN EveryNDays
                         ELSE EveryNDays \o " on Mon, Tue, Wed, Thu, Fri, Sat, Sun")

\* the preview of a daily recurrence on all seven days, ending on a date
C29_Witness ==
    /\ called
    /\ settings.is_recurring
    /\ Len(settings.frequency_daily_repeat) = 7
    /\ preview.text = "Repeats every 2 days on Mon, Tue, Wed, Thu, Fri, Sat, Sun, ending on 2025-12-31"

\* the preview of a weekly pattern
C29_Weekly ==
    /\ called
    /\ preview.text = "Repeats weekly on Mon, Wed, Fri, ending after 10 times"

====
